---- MODULE Spec2Model ----
(***************************************************************************)
(* A model of the tcpp preprocessor (src/source/tcppLibrary.hpp, the first *)
(* copy of the library in that file, lines 1-1608).                        *)
(*                                                                         *)
(* The model works on tokens.  An input stream is a sequence of lines and  *)
(* a line is the sequence of tokens Lexer::_scanTokens produces for it.    *)
(* A string (TToken::mRawView, processedStr) is a sequence of atoms: an    *)
(* atom is a piece of text that no operation of the preprocessor splits.   *)
(* The atom " " is the single blank; no other atom holds a blank, so the   *)
(* last character of a string is a blank iff its last atom is " ".         *)
(***************************************************************************)
EXTENDS Integers, Sequences, FiniteSets, TLC

\* ------------------------------------------------------------------ bounds
\* Largest number of #elif lines of a generated conditional block.
MaxElif == 2
\* Largest number of lines of a generated macro program.
MaxLines == 3
\* Largest number of lines of the body of a generated skipped block.
MaxBody == 2
\* Number of atoms of output after which a run is followed no further.
MaxOut == 40
\* Largest number of characters of a generated text.
MaxText == 4

\* ------------------------------------------------------------------ tokens
\* TToken: its type, its raw view and the line it was scanned on.
Tok(type, raw) == [mType |-> type, mRawView |-> raw, mLineId |-> 0]

\* Lexer::mEOFToken
mEOFToken == Tok("END", <<>>)

\* The tokens _scanTokens and _scanSeparatorTokens produce.
Id(name) == Tok("IDENTIFIER", <<name>>)
Kw(name) == Tok("KEYWORD", <<name>>)
Num(text) == Tok("NUMBER", <<text>>)
Blob(text) == Tok("BLOB", <<text>>)
Dir(type) == Tok(type, <<>>)
SP == Tok("SPACE", <<" ">>)
NL == Tok("NEWLINE", <<"\n">>)
LP == Tok("OPEN_BRACKET", <<"(">>)
RP == Tok("CLOSE_BRACKET", <<")">>)
COMMA == Tok("COMMA", <<",">>)
LESS == Tok("LESS", <<"<">>)
GREATER == Tok("GREATER", <<">">>)
PLUS == Tok("PLUS", <<"+">>)
CustomDir(name) == Tok("CUSTOM_DIRECTIVE", <<name>>)

\* ------------------------------------------------------------------- lexer
\* The state of a Lexer as one record.
LexState(streams, line, queue, idx) ==
    [mStreamsContext |-> streams, mCurrLine |-> line,
     mTokensQueue |-> queue, mCurrLineIndex |-> idx]

\* Lexer::_getActiveStream: the top of the stream stack is its last element.
ActiveStream(lex) == lex.mStreamsContext[Len(lex.mStreamsContext)]

\* StringInputStream::HasNextLine of the active stream, false without one.
ActiveHasNextLine(lex) ==
    /\ lex.mStreamsContext /= <<>>
    /\ ActiveStream(lex) /= <<>>

\* Lexer::HasNextToken
HasNextToken(lex) ==
    \/ ActiveHasNextLine(lex)
    \/ lex.mCurrLine /= <<>>
    \/ lex.mTokensQueue /= <<>>

\* Lexer::PopStream
PopStream(lex) ==
    IF lex.mStreamsContext = <<>>
    THEN lex
    ELSE [lex EXCEPT !.mStreamsContext = SubSeq(@, 1, Len(@) - 1)]

\* Lexer::PushStream
PushStream(lex, stream) ==
    [lex EXCEPT !.mStreamsContext = Append(@, stream)]

\* AppendFront with the tokens put behind the queue.
AppendBack(lex, tokens) ==
    [lex EXCEPT !.mTokensQueue = @ \o tokens]

\* Lexer::AppendFront
AppendFront(lex, tokens) ==
    [lex EXCEPT !.mTokensQueue = tokens \o @]

\* Lexer::GetNextToken, with _requestSourceLine and _scanTokens: the head of
\* the queue, else the next token of the current line, else the first token
\* of the next line of the active stream, else mEOFToken.  A token scanned
\* from a line carries the index of that line.  Returns the token and the
\* lexer after the call.  (With an empty stream stack _requestSourceLine
\* dereferences no stream; Process never calls it there, see StackInv.)
GetNextToken(lex) ==
    IF lex.mTokensQueue /= <<>>
    THEN [tok |-> Head(lex.mTokensQueue),
          lex |-> [lex EXCEPT !.mTokensQueue = Tail(@)]]
    ELSE IF lex.mCurrLine /= <<>>
    THEN [tok |-> [Head(lex.mCurrLine) EXCEPT !.mLineId = lex.mCurrLineIndex],
          lex |-> [lex EXCEPT !.mCurrLine = Tail(@)]]
    ELSE IF ~ActiveHasNextLine(lex)
    THEN [tok |-> mEOFToken, lex |-> lex]
    ELSE LET n == Len(lex.mStreamsContext)
             line == Head(lex.mStreamsContext[n])
             idx == lex.mCurrLineIndex + 1
         IN [tok |-> [Head(line) EXCEPT !.mLineId = idx],
             lex |-> [lex EXCEPT !.mStreamsContext[n] = Tail(@),
                                 !.mCurrLine = Tail(line),
                                 !.mCurrLineIndex = idx]]

\* while ((currToken = GetNextToken()).mType == SPACE);
RECURSIVE SkipSpaces(_)
SkipSpaces(lex) ==
    LET r == GetNextToken(lex)
    IN IF r.tok.mType = "SPACE" THEN SkipSpaces(r.lex) ELSE r

\* ------------------------------------------------------------ preprocessor
\* The state of a Preprocessor and its Lexer inside one handler, as a record:
\* lex, mSymTable, mContextStack, mConditionalBlocksStack, processedStr, the
\* errors handed to mOnErrorCallback, and st: "ok", or "hang" when the handler
\* is in a loop it cannot leave, or "crash" when it has aborted.
WithLex(P, lex) == [P EXCEPT !.lex = lex]

\* mOnErrorCallback({ type, mpLexer->GetCurrLineIndex() })
Report(P, type) ==
    [P EXCEPT !.errors =
        Append(@, [mType |-> type, mLine |-> P.lex.mCurrLineIndex])]

\* Preprocessor::_expect
Expect(P, expectedType, actualType) ==
    IF expectedType = actualType THEN P ELSE Report(P, "UNEXPECTED_TOKEN")

\* Preprocessor::_shouldTokenBeSkipped, on the stack of conditional frames
\* (the top of the stack is its last element).
ShouldTokenBeSkipped(ifs) ==
    ifs /= <<>> /\ ifs[Len(ifs)].mShouldBeSkipped

\* The lambda appendString of Process.
AppendString(P, str) ==
    IF ShouldTokenBeSkipped(P.mConditionalBlocksStack)
    THEN P
    ELSE [P EXCEPT !.processedStr = @ \o str]

\* std::find_if over mSymTable by name: the index of the first entry, 0 if none.
FindMacro(sym, name) ==
    IF \E i \in 1..Len(sym) : sym[i].mName = name
    THEN CHOOSE i \in 1..Len(sym) :
            /\ sym[i].mName = name
            /\ \A j \in 1..(i - 1) : sym[j].mName /= name
    ELSE 0

\* TMacroDesc
MacroDesc(name, args, value) ==
    [mName |-> name, mArgsNames |-> args, mValue |-> value]

\* The loop of extractValue and of _processIfConditional: tokens are collected
\* up to the next NEWLINE.  Once the lexer is exhausted it returns END for
\* ever and the loop never ends.
RECURSIVE ReadUntilNewline(_, _)
ReadUntilNewline(lex, acc) ==
    LET r == GetNextToken(lex)
    IN IF r.tok.mType = "NEWLINE"
       THEN [toks |-> acc, lex |-> r.lex, hang |-> FALSE]
       ELSE IF r.tok.mType = "END"
       THEN [toks |-> acc, lex |-> r.lex, hang |-> TRUE]
       ELSE ReadUntilNewline(r.lex, Append(acc, r.tok))

\* The lambda extractValue of _createMacroDefinition: the first token after
\* the spaces is taken whatever it is, then the tokens up to the NEWLINE.
ExtractValue(lex) ==
    LET r == SkipSpaces(lex)
    IN ReadUntilNewline(r.lex, <<r.tok>>)

\* The parameter loop of _createMacroDefinition.  At the end of the input it
\* reads END for ever.
RECURSIVE ParseParams(_, _)
ParseParams(P, args) ==
    LET r1 == SkipSpaces(P.lex)
        P1 == Expect(WithLex(P, r1.lex), "IDENTIFIER", r1.tok.mType)
        args1 == Append(args, r1.tok.mRawView)
        r2 == SkipSpaces(P1.lex)
        P2 == WithLex(P1, r2.lex)
    IN IF r2.tok.mType = "CLOSE_BRACKET"
       THEN [P |-> P2, args |-> args1, hang |-> FALSE]
       ELSE IF r2.tok.mType = "END"
       THEN [P |-> Expect(P2, "COMMA", "END"), args |-> args1, hang |-> TRUE]
       ELSE ParseParams(Expect(P2, "COMMA", r2.tok.mType), args1)

\* AddMacro without the search for the name.
AddMacroNoSearch(P, desc) ==
    IF ShouldTokenBeSkipped(P.mConditionalBlocksStack)
    THEN P
    ELSE [P EXCEPT !.mSymTable = Append(@, desc)]

\* The end of _createMacroDefinition: nothing in a skipped branch, an error
\* for a name that is in the table, else the new entry at the back.
AddMacro(P, desc) ==
    IF ShouldTokenBeSkipped(P.mConditionalBlocksStack)
    THEN P
    ELSE IF FindMacro(P.mSymTable, desc.mName) /= 0
    THEN Report(P, "MACRO_ALREADY_DEFINED")
    ELSE [P EXCEPT !.mSymTable = Append(@, desc)]

\* Preprocessor::_createMacroDefinition
CreateMacroDefinition(P) ==
    LET r1 == GetNextToken(P.lex)
        P1 == Expect(WithLex(P, r1.lex), "SPACE", r1.tok.mType)
        r2 == GetNextToken(P1.lex)
        P2 == Expect(WithLex(P1, r2.lex), "IDENTIFIER", r2.tok.mType)
        name == r2.tok.mRawView
        r3 == GetNextToken(P2.lex)
        P3 == WithLex(P2, r3.lex)
    IN CASE r3.tok.mType = "SPACE" ->
              LET v == ExtractValue(P3.lex)
              IN IF v.hang
                 THEN [WithLex(P3, v.lex) EXCEPT !.st = "hang"]
                 ELSE AddMacro(WithLex(P3, v.lex), MacroDesc(name, <<>>, v.toks))
         [] r3.tok.mType = "NEWLINE" ->
              AddMacro(P3, MacroDesc(name, <<>>,
                  <<[Num("1") EXCEPT !.mLineId = P3.lex.mCurrLineIndex]>>))
         [] r3.tok.mType = "OPEN_BRACKET" ->
              LET a == ParseParams(P3, <<>>)
                  v == ExtractValue(a.P.lex)
              IN IF a.hang
                 THEN [a.P EXCEPT !.st = "hang"]
                 ELSE IF v.hang
                 THEN [WithLex(a.P, v.lex) EXCEPT !.st = "hang"]
                 ELSE AddMacro(WithLex(a.P, v.lex), MacroDesc(name, a.args, v.toks))
         [] OTHER ->
              AddMacro(Report(P3, "INVALID_MACRO_DEFINITION"),
                       MacroDesc(name, <<>>, <<>>))

\* Preprocessor::_removeMacroDefinition
RemoveMacroDefinition(P, macroName) ==
    IF ShouldTokenBeSkipped(P.mConditionalBlocksStack)
    THEN P
    ELSE LET i == FindMacro(P.mSymTable, macroName)
         IN IF i = 0
            THEN Report(P, "UNDEFINED_MACRO")
            ELSE LET P1 == [P EXCEPT !.mSymTable =
                                SubSeq(@, 1, i - 1) \o SubSeq(@, i + 1, Len(@))]
                     r == GetNextToken(P1.lex)
                 IN Expect(WithLex(P1, r.lex), "NEWLINE", r.tok.mType)

\* The UNDEF case of Process: the token that follows the directive is taken
\* as the name, whatever it is.
ProcessUndef(P) ==
    LET r == GetNextToken(P.lex)
        P1 == Expect(WithLex(P, r.lex), "IDENTIFIER", r.tok.mType)
    IN RemoveMacroDefinition(P1, r.tok.mRawView)

\* --------------------------------------------------------- macro expansion
\* The outcomes of an operation whose behaviour the language leaves undefined:
\* it goes on as if nothing had happened, it goes on with a garbage value, or
\* the process aborts.
UBOutcomes == {"benign", "garbage", "crash"}

\* The raw views of a token sequence, concatenated.
RECURSIVE ConcatRaw(_)
ConcatRaw(toks) ==
    IF toks = <<>> THEN <<>> ELSE Head(toks).mRawView \o ConcatRaw(Tail(toks))

\* The inner loop of the argument loop of _expandMacroDefinition: tokens are
\* added to the argument up to a COMMA, a NEWLINE or a CLOSE_BRACKET.  At the
\* end of the input it reads END for ever.
RECURSIVE ReadArgTokens(_, _, _)
ReadArgTokens(lex, tok, cur) ==
    IF tok.mType \in {"COMMA", "NEWLINE", "CLOSE_BRACKET"}
    THEN [tok |-> tok, lex |-> lex, cur |-> cur, hang |-> FALSE]
    ELSE IF tok.mType = "END"
    THEN [tok |-> tok, lex |-> lex, cur |-> cur, hang |-> TRUE]
    ELSE LET r == GetNextToken(lex)
         IN ReadArgTokens(r.lex, r.tok, Append(cur, tok))

\* The argument loop of _expandMacroDefinition (while (true) ...).
RECURSIVE ReadArgs(_, _)
ReadArgs(P, processingTokens) ==
    LET r1 == SkipSpaces(P.lex)
        r2 == SkipSpaces(r1.lex)
        a == ReadArgTokens(r2.lex, r2.tok, <<r1.tok>>)
        P1 == WithLex(P, a.lex)
        P2 == IF a.tok.mType \notin {"COMMA", "CLOSE_BRACKET"}
              THEN Expect(P1, "COMMA", a.tok.mType)
              ELSE P1
        all == Append(processingTokens, a.cur)
    IN IF a.hang
       THEN [P |-> P1, args |-> processingTokens, hang |-> TRUE]
       ELSE IF a.tok.mType = "CLOSE_BRACKET"
       THEN [P |-> P2, args |-> all, hang |-> FALSE]
       ELSE ReadArgs(P2, all)

\* One pass of the substitution loop: every IDENTIFIER token of the list whose
\* raw view is the parameter's name gets the argument's text as its raw view.
ReplaceParam(list, name, value) ==
    [k \in 1..Len(list) |->
        IF list[k].mType = "IDENTIFIER" /\ list[k].mRawView = name
        THEN [list[k] EXCEPT !.mRawView = value]
        ELSE list[k]]

\* The substitution loop of _expandMacroDefinition, one pass per captured
\* argument, from the i-th on.  argsList[i] for an i past the parameters reads
\* outside the vector: the process aborts, or a garbage name is read, which
\* is the raw view of no token.
RECURSIVE SubstituteArgs(_, _, _, _, _)
SubstituteArgs(list, argsList, processingTokens, i, ub) ==
    IF i > Len(processingTokens)
    THEN [list |-> list, crash |-> FALSE]
    ELSE IF i > Len(argsList)
    THEN IF ub = "crash"
         THEN [list |-> list, crash |-> TRUE]
         ELSE SubstituteArgs(list, argsList, processingTokens, i + 1, ub)
    ELSE SubstituteArgs(
            ReplaceParam(list, argsList[i], ConcatRaw(processingTokens[i])),
            argsList, processingTokens, i + 1, ub)

\* The value of the system macro __LINE__: the table of system macros is a
\* function-local static that keeps a reference to the idToken of the call
\* that built it.  In the first call the reference is good; afterwards it
\* dangles: it reads the current token (the same stack slot), or garbage, or
\* the process aborts.
LineMacroValue(idToken, tableBuilt, ub) ==
    IF ~tableBuilt \/ ub = "benign"
    THEN <<[Blob(ToString(idToken.mLineId)) EXCEPT !.mLineId = 0]>>
    ELSE <<Blob("?")>>

\* The object-like branch of _expandMacroDefinition.
ExpandObjectLike(P, macroDesc, idToken, ub) ==
    LET P1 == [P EXCEPT !.systemMacrosTable = TRUE]
    IN IF macroDesc.mName = <<"__LINE__">>
       THEN IF P.systemMacrosTable /\ ub = "crash"
            THEN [P EXCEPT !.st = "crash"]
            ELSE [P1 EXCEPT !.lex = AppendFront(@,
                        LineMacroValue(idToken, P.systemMacrosTable, ub))]
       ELSE [P1 EXCEPT !.lex = AppendFront(@, macroDesc.mValue)]

\* The function-like branch of _expandMacroDefinition.
ExpandFunctionLike(P, macroDesc, ub) ==
    LET P0 == [P EXCEPT !.mContextStack = Append(@, macroDesc.mName)]
        r == GetNextToken(P0.lex)
        P1 == Expect(WithLex(P0, r.lex), "OPEN_BRACKET", r.tok.mType)
        a == ReadArgs(P1, <<>>)
        P2 == IF Len(a.args) /= Len(macroDesc.mArgsNames)
              THEN Report(a.P, "INCONSISTENT_MACRO_ARITY")
              ELSE a.P
        s == SubstituteArgs(macroDesc.mValue, macroDesc.mArgsNames, a.args, 1, ub)
        reject == Tok("REJECT_MACRO", macroDesc.mName)
    IN IF a.hang
       THEN [a.P EXCEPT !.st = "hang"]
       ELSE IF s.crash
       THEN [P2 EXCEPT !.st = "crash"]
       ELSE [P2 EXCEPT !.lex = AppendFront(@, Append(s.list, reject))]

\* Preprocessor::_expandMacroDefinition, with the AppendFront of its result
\* by Process.
ExpandMacroDefinition(P, macroDesc, idToken, ub) ==
    IF macroDesc.mArgsNames = <<>>
    THEN ExpandObjectLike(P, macroDesc, idToken, ub)
    ELSE ExpandFunctionLike(P, macroDesc, ub)

\* ProcessIdentifier without the expansion: the name is output as it stands.
ProcessIdentifierVerbatim(P, currToken, ub) ==
    AppendString(P, currToken.mRawView)

\* The IDENTIFIER case of Process.
ProcessIdentifier(P, currToken, ub) ==
    LET i == FindMacro(P.mSymTable, currToken.mRawView)
        inContext == \E k \in 1..Len(P.mContextStack) :
                        P.mContextStack[k] = currToken.mRawView
    IN IF i /= 0 /\ ~inContext
       THEN ExpandMacroDefinition(P, P.mSymTable[i], currToken, ub)
       ELSE AppendString(P, currToken.mRawView)

\* The REJECT_MACRO case of Process: std::remove_if of the name.
ProcessRejectMacro(P, currToken) ==
    [P EXCEPT !.mContextStack = SelectSeq(@, LAMBDA n : n /= currToken.mRawView)]

\* ------------------------------------------------------ expression evaluator
\* The decimal numerals of the inputs.
Numerals == <<"0", "1", "2", "3", "4", "5", "6", "7", "8", "9">>

\* std::stoi on the raw view of a NUMBER token of one digit.
StoI(raw) == (CHOOSE n \in 1..Len(Numerals) : Numerals[n] = raw[1]) - 1

BoolToInt(b) == IF b THEN 1 ELSE 0

\* A state of the evaluator: the value so far, the tokens left (the vector
\* tokens, which ends with an END token) and st as for a handler.
EvalState(v, toks, st) == [v |-> v, toks |-> toks, st |-> st]

\* The lambda evalPrimary of _evaluateExpression.  An identifier followed by
\* a bracket is evalCall: 0, and nothing is consumed.
EvalPrimary(toks, sym) ==
    LET currToken == Head(toks)
    IN CASE currToken.mType = "IDENTIFIER" ->
              IF Len(toks) >= 2 /\ toks[2].mType = "OPEN_BRACKET"
              THEN EvalState(0, toks, "ok")
              ELSE EvalState(BoolToInt(FindMacro(sym, currToken.mRawView) /= 0),
                             Tail(toks), "ok")
         [] currToken.mType = "NUMBER" ->
              EvalState(StoI(currToken.mRawView), Tail(toks), "ok")
         [] OTHER -> EvalState(0, toks, "ok")

\* The lambda evalUnary: the operator is looked for after the primary and is
\* not consumed.
EvalUnary(toks, sym) ==
    LET r == EvalPrimary(toks, sym)
        t == Head(r.toks).mType
    IN CASE t = "MINUS" -> [r EXCEPT !.v = 0 - r.v]
         [] t = "NOT" -> [r EXCEPT !.v = BoolToInt(r.v = 0)]
         [] OTHER -> r

\* One binary operator of the evaluator applied to two ints.
ApplyOp(op, a, b) ==
    CASE op = "STAR" -> a * b
      [] op = "SLASH" -> a \div b
      [] op = "PLUS" -> a + b
      [] op = "MINUS" -> a - b
      [] op = "LESS" -> BoolToInt(a < b)
      [] op = "GREATER" -> BoolToInt(a > b)
      [] op = "LE" -> BoolToInt(a <= b)
      [] op = "GE" -> BoolToInt(a >= b)
      [] op = "EQ" -> BoolToInt(a = b)
      [] op = "NE" -> BoolToInt(a /= b)
      [] op = "AND" -> BoolToInt(a /= 0 /\ b /= 0)
      [] OTHER -> BoolToInt(a /= 0 \/ b /= 0)

\* The operators of the levels of the evaluator, lowest level first:
\* 1 evalMultiplication, 2 evalAddition, 3 evalComparison, 4 evalEquality,
\* 5 evalAndExpr, 6 evalOrExpr.
LevelOps(level) ==
    CASE level = 1 -> {"STAR", "SLASH"}
      [] level = 2 -> {"PLUS", "MINUS"}
      [] level = 3 -> {"LESS", "GREATER", "LE", "GE"}
      [] level = 4 -> {"EQ", "NE"}
      [] level = 5 -> {"AND"}
      [] OTHER -> {"OR"}

\* The lambdas evalMultiplication .. evalOrExpr: the operand of the level
\* below, then while the front token is an operator of the level, the
\* operator applied to the result and the next operand.  No lambda consumes
\* the operator token: an iteration that leaves the tokens as they were is
\* followed by the same iteration for ever.  && and || do not evaluate their
\* right operand when the left one decides.  A division by zero aborts the
\* process or goes on with a garbage value.
RECURSIVE EvalLevel(_, _, _, _)
RECURSIVE EvalLoop(_, _, _, _)
EvalLevel(level, toks, sym, ub) ==
    IF level = 0
    THEN EvalUnary(toks, sym)
    ELSE EvalLoop(level, EvalLevel(level - 1, toks, sym, ub), sym, ub)

EvalLoop(level, r, sym, ub) ==
    LET op == Head(r.toks).mType
        shortCut == \/ op = "AND" /\ r.v = 0
                    \/ op = "OR" /\ r.v /= 0
        o == IF shortCut
             THEN r
             ELSE EvalLevel(level - 1, r.toks, sym, ub)
    IN IF r.st /= "ok" \/ op \notin LevelOps(level)
       THEN r
       ELSE IF o.st /= "ok"
       THEN o
       ELSE IF op = "SLASH" /\ o.v = 0 /\ ub = "crash"
       THEN [r EXCEPT !.st = "crash"]
       ELSE IF o.toks = r.toks
       THEN [r EXCEPT !.st = "hang"]
       ELSE EvalLoop(level,
                EvalState(IF op = "SLASH" /\ o.v = 0 THEN 0
                          ELSE ApplyOp(op, r.v, o.v), o.toks, "ok"),
                sym, ub)

\* Preprocessor::_evaluateExpression
EvaluateExpression(exprTokens, sym, ub) ==
    EvalLevel(6, Append(exprTokens, mEOFToken), sym, ub)

\* ------------------------------------------------------ conditional blocks
\* TIfStackEntry
IfStackEntry(shouldBeSkipped) ==
    [mShouldBeSkipped |-> shouldBeSkipped, mHasElseBeenFound |-> FALSE]

\* The expression of an #if or #elif line: a SPACE is expected, the tokens
\* up to the NEWLINE are evaluated.  Gives the handler state and the frame's
\* mShouldBeSkipped.
ReadCondition(P, ub) ==
    LET r == GetNextToken(P.lex)
        P1 == Expect(WithLex(P, r.lex), "SPACE", r.tok.mType)
        e == ReadUntilNewline(P1.lex, <<>>)
        P2 == WithLex(P1, e.lex)
        v == EvaluateExpression(e.toks, P.mSymTable, ub)
    IN IF e.hang
       THEN [P |-> [P2 EXCEPT !.st = "hang"], skip |-> TRUE]
       ELSE [P |-> [P2 EXCEPT !.st = v.st], skip |-> (v.v = 0)]

\* Preprocessor::_processIfConditional, with the push of Process.
ProcessIf(P, ub) ==
    LET c == ReadCondition(P, ub)
    IN IF c.P.st /= "ok"
       THEN c.P
       ELSE [c.P EXCEPT !.mConditionalBlocksStack =
                Append(@, IfStackEntry(c.skip))]

\* The name of an #ifdef or #ifndef line: SPACE, IDENTIFIER and NEWLINE are
\* expected and taken whatever they are.
ReadMacroName(P) ==
    LET r1 == GetNextToken(P.lex)
        P1 == Expect(WithLex(P, r1.lex), "SPACE", r1.tok.mType)
        r2 == GetNextToken(P1.lex)
        P2 == Expect(WithLex(P1, r2.lex), "IDENTIFIER", r2.tok.mType)
        r3 == GetNextToken(P2.lex)
        P3 == Expect(WithLex(P2, r3.lex), "NEWLINE", r3.tok.mType)
    IN [P |-> P3, defined |-> FindMacro(P.mSymTable, r2.tok.mRawView) /= 0]

\* Preprocessor::_processIfdefConditional, with the push of Process.
ProcessIfdef(P) ==
    LET n == ReadMacroName(P)
    IN [n.P EXCEPT !.mConditionalBlocksStack =
            Append(@, IfStackEntry(~n.defined))]

\* Preprocessor::_processIfndefConditional, with the push of Process.
ProcessIfndef(P) ==
    LET n == ReadMacroName(P)
    IN [n.P EXCEPT !.mConditionalBlocksStack =
            Append(@, IfStackEntry(n.defined))]

\* An #else handler that toggles the frame whatever its flags are.
ElseConditionalAgain(P) ==
    LET n == Len(P.mConditionalBlocksStack)
    IN [P EXCEPT !.mConditionalBlocksStack[n] =
            [mShouldBeSkipped |-> ~@.mShouldBeSkipped,
             mHasElseBeenFound |-> TRUE]]

\* Preprocessor::_processElseConditional on the top frame.
ElseConditional(P) ==
    LET n == Len(P.mConditionalBlocksStack)
    IN IF P.mConditionalBlocksStack[n].mHasElseBeenFound
       THEN Report(P, "ANOTHER_ELSE_BLOCK_FOUND")
       ELSE [P EXCEPT !.mConditionalBlocksStack[n] =
                [mShouldBeSkipped |-> ~@.mShouldBeSkipped,
                 mHasElseBeenFound |-> TRUE]]

\* The ELSE case of Process.  top() of an empty stack reads no frame: the
\* process aborts, or a garbage frame is read, whose mHasElseBeenFound is set
\* or not, and the write goes to no frame of the stack.
ProcessElse(P, ub) ==
    IF P.mConditionalBlocksStack /= <<>>
    THEN ElseConditional(P)
    ELSE CASE ub = "crash" -> [P EXCEPT !.st = "crash"]
           [] ub = "garbage" -> Report(P, "ANOTHER_ELSE_BLOCK_FOUND")
           [] OTHER -> P

\* Preprocessor::_processElifConditional on the top frame.
ElifConditional(P, ub) ==
    LET n == Len(P.mConditionalBlocksStack)
        c == ReadCondition(P, ub)
    IN IF P.mConditionalBlocksStack[n].mHasElseBeenFound
       THEN Report(P, "ELIF_BLOCK_AFTER_ELSE_FOUND")
       ELSE IF c.P.st /= "ok"
       THEN c.P
       ELSE [c.P EXCEPT !.mConditionalBlocksStack[n].mShouldBeSkipped = c.skip]

\* The ELIF case of Process; an empty stack as for ProcessElse.
ProcessElif(P, ub) ==
    IF P.mConditionalBlocksStack /= <<>>
    THEN ElifConditional(P, ub)
    ELSE CASE ub = "crash" -> [P EXCEPT !.st = "crash"]
           [] ub = "garbage" -> Report(P, "ELIF_BLOCK_AFTER_ELSE_FOUND")
           [] OTHER -> ReadCondition(P, ub).P

\* An ENDIF case that drops every frame of the stack.
ProcessEndifAll(P) ==
    IF P.mConditionalBlocksStack = <<>>
    THEN Report(P, "UNBALANCED_ENDIF")
    ELSE [P EXCEPT !.mConditionalBlocksStack = <<>>]

\* The ENDIF case of Process.
ProcessEndif(P) ==
    IF P.mConditionalBlocksStack = <<>>
    THEN Report(P, "UNBALANCED_ENDIF")
    ELSE [P EXCEPT !.mConditionalBlocksStack = SubSeq(@, 1, Len(@) - 1)]

\* ---------------------------------------------------------------- inclusion
\* The lines of a source text, as the token lines of the streams below.
TextLine(name) == <<Id(name), NL>>
EndifLine == <<Dir("ENDIF"), NL>>
IncludeLine(name) == <<Dir("INCLUDE"), SP, LESS, Id(name), GREATER, NL>>

\* No stream: what mOnIncludeCallback returns for a path it does not know.
NoStream == "nullptr"

\* mOnIncludeCallback, the include resolver of the host: the streams it knows.
\*   system   "one\n"
\*   noeol    "one"
\*   empty    ""
\*   nested   "#include <system>\n"
\*   nested2  "#include <system>\nmid\n"
\*   closer   "#endif\n"
IncludeCallback(path, isSystem) ==
    CASE path = <<"system">> -> <<TextLine("one")>>
      [] path = <<"noeol">> -> << <<Id("one")>> >>
      [] path = <<"empty">> -> <<>>
      [] path = <<"nested">> -> <<IncludeLine("system")>>
      [] path = <<"nested2">> -> <<IncludeLine("system"), TextLine("mid")>>
      [] path = <<"closer">> -> <<EndifLine>>
      [] OTHER -> NoStream

\* The path loop of _processInclusion: raw views are collected up to a QUOTES
\* or a GREATER; a NEWLINE is an error and ends the path too.  At the end of
\* the input it reads END for ever.
RECURSIVE ReadPath(_, _)
ReadPath(P, path) ==
    LET r == GetNextToken(P.lex)
        P1 == WithLex(P, r.lex)
    IN CASE r.tok.mType \in {"QUOTES", "GREATER"} ->
              [P |-> P1, path |-> path, hang |-> FALSE]
         [] r.tok.mType = "NEWLINE" ->
              [P |-> Report(P1, "UNEXPECTED_END_OF_INCLUDE_PATH"),
               path |-> path, hang |-> FALSE]
         [] r.tok.mType = "END" ->
              [P |-> P1, path |-> path, hang |-> TRUE]
         [] OTHER -> ReadPath(P1, path \o r.tok.mRawView)

\* while ((currToken = GetNextToken()).mType == NEWLINE);
RECURSIVE SkipNewlines(_)
SkipNewlines(lex) ==
    LET r == GetNextToken(lex)
    IN IF r.tok.mType = "NEWLINE" THEN SkipNewlines(r.lex) ELSE r

\* Preprocessor::_processInclusion.  For no stream TCPP_ASSERT(false) aborts
\* the process, or, compiled out, the handler returns.
ProcessInclusion(P, ub) ==
    LET r == SkipSpaces(P.lex)
        P1 == WithLex(P, r.lex)
        isSystemPathInclusion == r.tok.mType = "LESS"
        p == ReadPath(P1, <<>>)
        r2 == SkipSpaces(p.P.lex)
        P2 == Expect(WithLex(p.P, r2.lex), "NEWLINE", r2.tok.mType)
        pInputStream == IncludeCallback(p.path, isSystemPathInclusion)
    IN IF r.tok.mType \notin {"LESS", "QUOTES"}
       THEN Report(WithLex(P1, SkipNewlines(P1.lex).lex),
                   "INVALID_INCLUDE_DIRECTIVE")
       ELSE IF p.hang
       THEN [p.P EXCEPT !.st = "hang"]
       ELSE IF pInputStream = NoStream
       THEN IF ub = "crash" THEN [P2 EXCEPT !.st = "crash"] ELSE P2
       ELSE [P2 EXCEPT !.lex = PushStream(@, pInputStream)]

\* ----------------------------------------------------- operators, directives
\* The CONCAT_OP case of Process.  The last blank of the output is removed,
\* in a skipped branch too.  back() of an empty string reads no character:
\* it reads a null, or it reads a blank and the erase that follows throws,
\* or the process aborts.
ProcessConcat(P, ub) ==
    LET n == Len(P.processedStr)
        P1 == IF n > 0 /\ P.processedStr[n] = " "
              THEN [P EXCEPT !.processedStr = SubSeq(@, 1, n - 1)]
              ELSE P
        r == SkipSpaces(P1.lex)
    IN IF n = 0 /\ ub /= "benign"
       THEN [P EXCEPT !.st = "crash"]
       ELSE AppendString(WithLex(P1, r.lex), r.tok.mRawView)

\* The STRINGIZE_OP case of Process.
ProcessStringize(P) ==
    LET r == GetNextToken(P.lex)
    IN AppendString(WithLex(P, r.lex), r.tok.mRawView)

\* mCustomDirectivesHandlersMap: the directive "custom" has a handler, which
\* returns the text CUSTOM and reads no token; a directive that only the
\* lexer knows has none.
CustomDirectiveHandlers == {"custom"}
CustomDirectiveText(name) == <<"CUSTOM">>

\* The CUSTOM_DIRECTIVE case of Process.
ProcessCustomDirective(P, currToken) ==
    IF currToken.mRawView[1] \in CustomDirectiveHandlers
    THEN AppendString(P, CustomDirectiveText(currToken.mRawView[1]))
    ELSE Report(P, "UNDEFINED_DIRECTIVE")

\* The default case of Process.
ProcessDefault(P, currToken) == AppendString(P, currToken.mRawView)

\* ------------------------------------------------------------------ inputs
\* The lines of the inputs, as _scanTokens gives them.
DefineLine(name, value) == <<Dir("DEFINE"), SP, Id(name), SP>> \o value \o <<NL>>
DefineFlagLine(name) == <<Dir("DEFINE"), SP, Id(name), NL>>
DefineFunctionLine(name, param, value) ==
    <<Dir("DEFINE"), SP, Id(name), LP, Id(param), RP, SP>> \o value \o <<NL>>
UndefLine(name) == <<Dir("UNDEF"), SP, Id(name), NL>>
IfLine(digit) == <<Dir("IF"), SP, Num(digit), NL>>
ElifLine(digit) == <<Dir("ELIF"), SP, Num(digit), NL>>
ElseLine == <<Dir("ELSE"), NL>>
IfdefLine(name) == <<Dir("IFDEF"), SP, Id(name), NL>>
IfndefLine(name) == <<Dir("IFNDEF"), SP, Id(name), NL>>
CallLine(name, arg) == <<Id(name), LP, arg, RP, NL>>
\* "int array[COUNT];\n"
UseLine == <<Kw("int"), SP, Id("array"), Blob("["), Id("COUNT"), Blob("];"), NL>>
\* A line without its line break: the last line of a text that ends without one.
NoEol(line) == SubSeq(line, 1, Len(line) - 1)

\* All sequences over S of a length from lo to hi.
SeqsOf(S, lo, hi) == UNION {[1..n -> S] : n \in lo..hi}

\* The concatenation of a sequence of sequences.
RECURSIVE Flatten(_)
Flatten(ss) == IF ss = <<>> THEN <<>> ELSE Head(ss) \o Flatten(Tail(ss))

\* An input: the family it belongs to, the parameters it was built from and
\* the lines of the root stream.
Input(fam, par, root) == [fam |-> fam, par |-> par, root |-> root]

\* --- conditional blocks
\* The line that opens a block.  U is a name no input defines.
OpenerKinds == {"if0", "if1", "ifdefU", "ifndefU", "ifdefL", "ifndefL"}
OpenerLine(kind) ==
    CASE kind = "if0" -> IfLine("0")
      [] kind = "if1" -> IfLine("1")
      [] kind = "ifdefU" -> IfdefLine("U")
      [] kind = "ifndefU" -> IfndefLine("U")
      [] kind = "ifdefL" -> IfdefLine("__LINE__")
      [] kind = "ifndefM" -> IfndefLine("M")
      [] OTHER -> IfndefLine("__LINE__")

\* The names of the text and of the macro of the i-th branch of a block.
BranchText(i) == "t" \o ToString(i)
BranchMacro(i) == "d" \o ToString(i)

\* The i-th branch of a block: a line of text and a #define.
Branch(i) == <<TextLine(BranchText(i)), DefineFlagLine(BranchMacro(i))>>

\* A block: the opener and branch 0, each #elif with its branch, the #else
\* with the last branch, #endif.
CondBlock(first, elifs, hasElse) ==
    <<OpenerLine(first)>> \o Branch(0)
    \o Flatten([j \in 1..Len(elifs) |-> <<ElifLine(elifs[j])>> \o Branch(j)])
    \o (IF hasElse THEN <<ElseLine>> \o Branch(Len(elifs) + 1) ELSE <<>>)
    \o <<EndifLine>>

\* A block, alone or nested in an outer block between the lines p and q, and
\* the line z after it.
CondInput(outer, first, elifs, hasElse) ==
    Input("cond",
          [outer |-> outer, first |-> first, elifs |-> elifs, hasElse |-> hasElse],
          (IF outer = "none"
           THEN CondBlock(first, elifs, hasElse)
           ELSE <<OpenerLine(outer), TextLine("p")>>
                \o CondBlock(first, elifs, hasElse)
                \o <<TextLine("q"), EndifLine>>)
          \o <<TextLine("z")>>)

CondInputs ==
    {CondInput(outer, first, elifs, hasElse) :
        outer \in {"none", "if0", "if1"}, first \in OpenerKinds,
        elifs \in SeqsOf({"0", "1"}, 0, MaxElif), hasElse \in BOOLEAN}

\* --- skipped blocks
\* The lines of the body of a skipped block, by kind.
BodyKinds == {"text", "macro", "call", "stringize", "concat", "custom",
              "unknown", "define", "undef", "include", "includeCloser", "closer"}
BodyLine(kind) ==
    CASE kind = "text" -> TextLine("X")
      [] kind = "macro" -> TextLine("M")
      [] kind = "call" -> CallLine("F", Num("1"))
      [] kind = "stringize" -> <<Dir("STRINGIZE_OP"), Id("X"), NL>>
      [] kind = "concat" -> <<Id("X"), SP, Dir("CONCAT_OP"), SP, Id("Y"), NL>>
      [] kind = "custom" -> <<CustomDir("custom"), NL>>
      [] kind = "unknown" -> <<CustomDir("unknown"), NL>>
      [] kind = "define" -> DefineLine("N", <<Num("1")>>)
      [] kind = "undef" -> UndefLine("M")
      [] kind = "include" -> IncludeLine("system")
      [] kind = "includeCloser" -> IncludeLine("closer")
      [] OTHER -> TextLine("CLOSE")

\* The macros the body of a skipped block uses, a line of text, the block
\* (an opener whose condition is false, the body, #endif), the line z.
SkipInput(opener, body) ==
    Input("skip", [opener |-> opener, body |-> body],
          <<DefineLine("M", <<Num("4")>>),
            DefineFunctionLine("F", "x", <<Id("x")>>),
            DefineLine("CLOSE", <<Dir("ENDIF")>>),
            TextLine("a"),
            OpenerLine(opener)>>
          \o [k \in 1..Len(body) |-> BodyLine(body[k])]
          \o <<EndifLine, TextLine("z")>>)

SkipInputs ==
    {SkipInput(opener, body) :
        opener \in {"if0", "ifdefU", "ifndefM"},
        body \in SeqsOf(BodyKinds, 1, MaxBody)}

\* --- macro programs
MacroLineKinds == {"define4", "define5", "use", "undef", "defineLine",
                   "defineFlag", "useFlag"}
MacroLine(kind) ==
    CASE kind = "define4" -> DefineLine("COUNT", <<Num("4")>>)
      [] kind = "define5" -> DefineLine("COUNT", <<Num("5")>>)
      [] kind = "use" -> UseLine
      [] kind = "undef" -> UndefLine("COUNT")
      [] kind = "defineLine" -> DefineLine("__LINE__", <<Num("7")>>)
      [] kind = "defineFlag" -> DefineFlagLine("FLAG")
      [] OTHER -> TextLine("FLAG")

MacroInput(kinds) ==
    Input("macro", kinds, [k \in 1..Len(kinds) |-> MacroLine(kinds[k])])

MacroInputs == {MacroInput(kinds) : kinds \in SeqsOf(MacroLineKinds, 1, MaxLines)}

\* --- self-referencing macros
\* Each input with the output a run of it must give.
SelfRefInputs ==
    {Input("selfref", <<"1", " ", "+", " ", "FOO", "\n">>,
        <<DefineLine("FOO", <<Num("1"), SP, PLUS, SP, Id("FOO")>>),
          TextLine("FOO")>>),
     Input("selfref", <<"1", " ", "F", "(", "1", ")", "\n">>,
        <<DefineFunctionLine("F", "x", <<Id("x"), SP, Id("F"), LP, Id("x"), RP>>),
          CallLine("F", Num("1"))>>),
     Input("selfref", <<"A", "\n">>,
        <<DefineLine("A", <<Id("B")>>), DefineLine("B", <<Id("A")>>),
          TextLine("A")>>),
     Input("selfref", <<"G", "(", "1", ")", "\n">>,
        <<DefineFunctionLine("G", "x", <<Id("H"), LP, Id("x"), RP>>),
          DefineFunctionLine("H", "x", <<Id("G"), LP, Id("x"), RP>>),
          CallLine("G", Num("1"))>>)}

\* --- inputs that end in the middle of a construct
TruncInputs ==
    {Input("trunc", "text", <<TextLine("a"), NoEol(TextLine("b"))>>),
     Input("trunc", "define body", <<NoEol(DefineLine("A", <<Num("1")>>))>>),
     Input("trunc", "parameter list",
        << <<Dir("DEFINE"), SP, Id("F"), LP, Id("x")>> >>),
     Input("trunc", "argument list",
        <<DefineFunctionLine("F", "x", <<Id("x")>>), <<Id("F"), LP, Num("1")>> >>),
     Input("trunc", "if expression", <<NoEol(IfLine("1"))>>),
     Input("trunc", "elif expression", <<IfLine("0"), NoEol(ElifLine("1"))>>),
     Input("trunc", "include path",
        << <<Dir("INCLUDE"), SP, LESS, Id("system")>> >>)}

\* --- inclusions
IncludeNames == {"system", "noeol", "empty", "nested", "nested2", "missing"}
TailKinds == {"none", "two", "twoNoEol"}
TailLines(kind) ==
    CASE kind = "none" -> <<>>
      [] kind = "two" -> <<TextLine("two")>>
      [] OTHER -> <<NoEol(TextLine("two"))>>

\* A line of text or none, the #include line, a line of text or none.
IncludeInput(head, name, tail) ==
    Input("include", [head |-> head, name |-> name, tail |-> tail],
          (IF head THEN <<TextLine("zero")>> ELSE <<>>)
          \o <<IncludeLine(name)>> \o TailLines(tail))

IncludeInputs ==
    {IncludeInput(head, name, tail) :
        head \in BOOLEAN, name \in IncludeNames, tail \in TailKinds}

\* --- calls of function-like macros
\* "#define name(p1, p2) value\n"
DefineFunction2Line(name, p1, p2, value) ==
    <<Dir("DEFINE"), SP, Id(name), LP, Id(p1), COMMA, SP, Id(p2), RP, SP>>
    \o value \o <<NL>>

\* An input of the sections of coreTests.cpp on function-like macros: the
\* case it stands for, the output and the kind of error ("none", "arity")
\* the section requires, and the lines of the root stream.
FuncInput(case, out, err, root) ==
    Input("func", [case |-> case, out |-> out, err |-> err], root)

\* A function-like macro's name that no bracket follows.
\*   "#define FOO(X) X\nauto foo = FOO;\n"
\*   "#define FOO(X) X\nFOO\nz\n"
NoCallInputs ==
    {FuncInput("noCall",
        <<"auto", " ", "foo", " ", "=", " ", "FOO", ";", "\n">>, "none",
        <<DefineFunctionLine("FOO", "X", <<Id("X")>>),
          <<Kw("auto"), SP, Id("foo"), SP, Blob("="), SP, Id("FOO"),
            Blob(";"), NL>> >>),
     FuncInput("noCall", <<"FOO", "\n", "z", "\n">>, "none",
        <<DefineFunctionLine("FOO", "X", <<Id("X")>>),
          TextLine("FOO"), TextLine("z")>>)}

\* Brackets in an argument.
\*   "#define FIRST(X, Y) X\nFIRST((1, 2) c, 3)\n"
\*   "#define FOO(X, Y) X(Y)\nFOO(Foo, Test(0, 0))"
\*   "#define FIRST(X, Y) X\nFIRST(c, 3)\n"
BracketInputs ==
    {FuncInput("brackets", <<"(", "1", ",", " ", "2", ")", " ", "c", "\n">>, "none",
        <<DefineFunction2Line("FIRST", "X", "Y", <<Id("X")>>),
          <<Id("FIRST"), LP, LP, Num("1"), COMMA, SP, Num("2"), RP, SP,
            Id("c"), COMMA, SP, Num("3"), RP, NL>> >>),
     FuncInput("brackets",
        <<"Foo", "(", "Test", "(", "0", ",", " ", "0", ")", ")">>, "none",
        <<DefineFunction2Line("FOO", "X", "Y", <<Id("X"), LP, Id("Y"), RP>>),
          <<Id("FOO"), LP, Id("Foo"), COMMA, SP, Id("Test"), LP, Num("0"),
            COMMA, SP, Num("0"), RP, RP>> >>),
     FuncInput("brackets", <<"c", "\n">>, "none",
        <<DefineFunction2Line("FIRST", "X", "Y", <<Id("X")>>),
          <<Id("FIRST"), LP, Id("c"), COMMA, SP, Num("3"), RP, NL>> >>)}

\* The number of arguments of a call.
\*   "#define TEST(X) X\nTEST()\n"         an error
\*   "#define TEST(X) X\nTEST( )\n"        no error
\*   "#define TEST(X) X\nTEST(1, 2)\n"     an error
\*   "#define TEST(X) X\nTEST(1)\n"        no error
\*   "#define FIRST(X, Y) X\nFIRST(1)\n"   an error
ArityInputs ==
    {FuncInput("arity", <<"()">>, "arity",
        <<DefineFunctionLine("TEST", "X", <<Id("X")>>),
          <<Id("TEST"), LP, RP, NL>> >>),
     FuncInput("arity", <<"( )">>, "none",
        <<DefineFunctionLine("TEST", "X", <<Id("X")>>),
          <<Id("TEST"), LP, SP, RP, NL>> >>),
     FuncInput("arity", <<"(1, 2)">>, "arity",
        <<DefineFunctionLine("TEST", "X", <<Id("X")>>),
          <<Id("TEST"), LP, Num("1"), COMMA, SP, Num("2"), RP, NL>> >>),
     FuncInput("arity", <<"(1)">>, "none",
        <<DefineFunctionLine("TEST", "X", <<Id("X")>>),
          CallLine("TEST", Num("1"))>>),
     FuncInput("arity", <<"2:(1)">>, "arity",
        <<DefineFunction2Line("FIRST", "X", "Y", <<Id("X")>>),
          CallLine("FIRST", Num("1"))>>)}

\* An argument that is the name of another parameter.
\*   "#define F(a, b) a b\nF(b, 1)\n"
\*   "#define F(a, b) a b\nF(p, 1)\n"
\*   "#define F(a, b) b c a\nF(1, 2)\n"
SubstInputs ==
    {FuncInput("subst", <<"b", " ", "1", "\n">>, "none",
        <<DefineFunction2Line("F", "a", "b", <<Id("a"), SP, Id("b")>>),
          <<Id("F"), LP, Id("b"), COMMA, SP, Num("1"), RP, NL>> >>),
     FuncInput("subst", <<"p", " ", "1", "\n">>, "none",
        <<DefineFunction2Line("F", "a", "b", <<Id("a"), SP, Id("b")>>),
          <<Id("F"), LP, Id("p"), COMMA, SP, Num("1"), RP, NL>> >>),
     FuncInput("subst", <<"2", " ", "c", " ", "1", "\n">>, "none",
        <<DefineFunction2Line("F", "a", "b",
              <<Id("b"), SP, Id("c"), SP, Id("a")>>),
          <<Id("F"), LP, Num("1"), COMMA, SP, Num("2"), RP, NL>> >>)}

\* The stringize operator in a macro body.
\*   "#define FOO(Name) #Name\n FOO(Text)"
\*   "#define FOO(Name) #Name\nFOO(Text)\nz\n"
StringizeInputs ==
    {FuncInput("stringize", <<" ", "\"", "Text", "\"">>, "none",
        <<DefineFunctionLine("FOO", "Name", <<Dir("STRINGIZE_OP"), Id("Name")>>),
          <<SP, Id("FOO"), LP, Id("Text"), RP>> >>),
     FuncInput("stringize", <<"\"", "Text", "\"", "\n", "z", "\n">>, "none",
        <<DefineFunctionLine("FOO", "Name", <<Dir("STRINGIZE_OP"), Id("Name")>>),
          CallLine("FOO", Id("Text")), TextLine("z")>>)}

\* A macro name as an operand of ##.
\*   "#define STRCAT(a, b) a ## b\nSTRCAT(__LINE__, b)\n"
\*   "#define STRCAT(a, b) a ## b\nSTRCAT(a, __LINE__)\n"
\*   "#define STRCAT(a, b) a ## b\nSTRCAT(p, q)\n"
StrcatLine == DefineFunction2Line("STRCAT", "a", "b",
                  <<Id("a"), SP, Dir("CONCAT_OP"), SP, Id("b")>>)
StrcatInputs ==
    {FuncInput("strcat", <<"__LINE__", "b", "\n">>, "none",
        <<StrcatLine,
          <<Id("STRCAT"), LP, Id("__LINE__"), COMMA, SP, Id("b"), RP, NL>> >>),
     FuncInput("strcat", <<"a", "__LINE__", "\n">>, "none",
        <<StrcatLine,
          <<Id("STRCAT"), LP, Id("a"), COMMA, SP, Id("__LINE__"), RP, NL>> >>),
     FuncInput("strcat", <<"p", "q", "\n">>, "none",
        <<StrcatLine,
          <<Id("STRCAT"), LP, Id("p"), COMMA, SP, Id("q"), RP, NL>> >>)}

FuncInputs ==
    NoCallInputs \cup BracketInputs \cup ArityInputs \cup SubstInputs
    \cup StringizeInputs \cup StrcatInputs

\* --- the operator ## in a text
\* The lines are as _requestSourceLine leaves them, a run of blanks being one
\* blank.
\*   "AAA   ## BB"
\*   "x\nAAA ##BB\n"
\*   "#define S 1 \nS ## b\n"     (the body of S ends with a blank)
\*   "## BB\n"
PasteInputs ==
    {Input("paste", "plain", << <<Id("AAA"), SP, Dir("CONCAT_OP"), SP, Id("BB")>> >>),
     Input("paste", "second line",
        <<TextLine("x"), <<Id("AAA"), SP, Dir("CONCAT_OP"), Id("BB"), NL>> >>),
     Input("paste", "two blanks",
        <<DefineLine("S", <<Num("1"), SP>>),
          <<Id("S"), SP, Dir("CONCAT_OP"), SP, Id("b"), NL>> >>),
     Input("paste", "first token", << <<Dir("CONCAT_OP"), SP, Id("BB"), NL>> >>)}

\* --- __LINE__
\* "__LINE__\n__LINE__\n__LINE__", and with a line of text first.
LineInputs ==
    {Input("line", <<"1", "\n", "2", "\n", "3">>,
        <<TextLine("__LINE__"), TextLine("__LINE__"), NoEol(TextLine("__LINE__"))>>),
     Input("line", <<"a", "\n", "2", "\n">>,
        <<TextLine("a"), TextLine("__LINE__")>>)}

\* --- expressions of #if
\* A token sequence with a blank between every two tokens.
RECURSIVE Spaced(_)
Spaced(toks) ==
    IF Len(toks) <= 1 THEN toks ELSE <<Head(toks), SP>> \o Spaced(Tail(toks))

\* The expressions: the kind of the case, the #define lines before the #if,
\* the tokens of the expression as _scanTokens and _scanSeparatorTokens give
\* them, and the value the grammar of the specification gives (|| lowest, then
\* &&, equality, comparison, additive, multiplicative, prefix unary; an
\* identifier is the value of its macro's body, 0 without a macro; defined(X)
\* is 1 iff X is defined; a call is expanded first; x / 0 is 0).
\*   arith  numbers, brackets and operators
\*   div    divisions
\*   ident  "#define A 1", "#define C 0", then A, C, U, defined(A), defined(U)
\*   call   "#define A 1", "#define AND(X, Y) (X && Y)", then AND(A, 0), AND(A, 1)
ExprCase(kind, defs, toks, value) ==
    [kind |-> kind, defs |-> defs, toks |-> toks, value |-> value]

ExprCases ==
    LET n(d) == Num(d)
        op(type, text) == Tok(type, <<text>>)
        defsAC == <<DefineLine("A", <<Num("1")>>), DefineLine("C", <<Num("0")>>)>>
        defsAND == <<DefineLine("A", <<Num("1")>>),
                     DefineFunction2Line("AND", "X", "Y",
                        <<LP, Id("X"), SP, op("AND", "&&"), SP, Id("Y"), RP>>)>>
    IN {ExprCase("arith", <<>>, <<n("1")>>, 1),
        ExprCase("arith", <<>>, <<n("0")>>, 0),
        ExprCase("arith", <<>>, <<n("1"), PLUS, n("2")>>, 3),
        ExprCase("arith", <<>>, <<n("1"), op("MINUS", "-"), n("1")>>, 0),
        ExprCase("arith", <<>>, <<n("2"), op("STAR", "*"), n("3")>>, 6),
        ExprCase("arith", <<>>, <<n("0"), op("OR", "||"), n("1")>>, 1),
        ExprCase("arith", <<>>, <<n("1"), op("AND", "&&"), n("0")>>, 0),
        ExprCase("arith", <<>>, <<n("1"), op("EQ", "=="), n("1")>>, 1),
        ExprCase("arith", <<>>, <<n("1"), op("NE", "!="), n("1")>>, 0),
        ExprCase("arith", <<>>, <<n("1"), LESS, n("2")>>, 1),
        ExprCase("arith", <<>>, <<n("1"), GREATER, n("2")>>, 0),
        ExprCase("arith", <<>>, <<n("2"), op("LE", "<="), n("1")>>, 0),
        ExprCase("arith", <<>>, <<n("2"), op("GE", ">="), n("1")>>, 1),
        ExprCase("arith", <<>>, <<op("NOT", "!"), n("1")>>, 0),
        ExprCase("arith", <<>>, <<op("NOT", "!"), n("0")>>, 1),
        ExprCase("arith", <<>>, <<LP, n("1"), RP>>, 1),
        ExprCase("arith", <<>>, <<LP, n("0"), RP>>, 0),
        ExprCase("arith", <<>>,
            <<n("1"), op("OR", "||"), n("0"), op("AND", "&&"), n("0")>>, 1),
        ExprCase("arith", <<>>,
            <<n("2"), op("MINUS", "-"), n("1"), op("MINUS", "-"), n("1")>>, 0),
        ExprCase("div", <<>>, <<n("4"), op("SLASH", "/"), n("2")>>, 2),
        ExprCase("div", <<>>, <<n("1"), op("SLASH", "/"), n("0")>>, 0),
        ExprCase("div", <<>>, <<n("0"), op("SLASH", "/"), n("0")>>, 0),
        ExprCase("ident", defsAC, <<Id("A")>>, 1),
        ExprCase("ident", defsAC, <<Id("C")>>, 0),
        ExprCase("ident", defsAC, <<Id("U")>>, 0),
        ExprCase("ident", defsAC, <<Id("defined"), LP, Id("A"), RP>>, 1),
        ExprCase("ident", defsAC, <<Id("defined"), LP, Id("U"), RP>>, 0),
        ExprCase("call", defsAND, <<Id("AND"), LP, Id("A"), COMMA, SP, n("0"), RP>>, 0),
        ExprCase("call", defsAND, <<Id("AND"), LP, Id("A"), COMMA, SP, n("1"), RP>>, 1)}

\* The input of a case: its #define lines, then
\*   "#if expr\nT\n#else\nE\n#endif\n"
ExprInput(c, expr) ==
    Input("expr", [kind |-> c.kind, expr |-> expr, value |-> c.value],
          c.defs
          \o << <<Dir("IF"), SP>> \o expr \o <<NL>>,
                TextLine("T"), ElseLine, TextLine("E"), EndifLine>>)

\* Every case as it stands, and the cases of numbers with blanks between the
\* tokens too.
ExprInputs ==
    {ExprInput(c, c.toks) : c \in ExprCases}
    \cup {ExprInput(c, Spaced(c.toks)) :
            c \in {d \in ExprCases : d.kind \in {"arith", "div"}}}

\* The inputs of the runs.
\* --- texts, character by character
\* A source text is a sequence of characters.  std::string::find: the first
\* place of str where pat begins, 0 if there is none.
Find(str, pat) ==
    LET S == {i \in 1..(Len(str) - Len(pat) + 1) :
                 SubSeq(str, i, i + Len(pat) - 1) = pat}
    IN IF S = {} THEN 0 ELSE CHOOSE i \in S : \A j \in S : i <= j

\* StringInputStream::ReadLine: the text up to the first line break, the
\* break included, and the text left in the stream.
ReadLine(src) ==
    LET pos == Find(src, <<"\n">>)
    IN IF pos = 0
       THEN [line |-> src, rest |-> <<>>]
       ELSE [line |-> SubSeq(src, 1, pos), rest |-> SubSeq(src, pos + 1, Len(src))]

\* Lexer::_removeSingleLineComment
RemoveSingleLineComment(line) ==
    LET pos == Find(line, <<"/", "/">>)
    IN IF pos = 0 THEN line ELSE SubSeq(line, 1, pos - 1)

\* The loop of _requestSourceLine that joins lines at a backslash: the line
\* from the character before the first backslash on is replaced by the next
\* line of the stream, without its // comment; with no next line the line is
\* cut at the backslash.
RECURSIVE JoinLines(_, _)
JoinLines(sourceLine, rest) ==
    LET pos == Find(sourceLine, <<"\\">>)
        r == ReadLine(rest)
    IN IF pos = 0
       THEN [line |-> sourceLine, rest |-> rest]
       ELSE IF rest /= <<>>
       THEN JoinLines(SubSeq(sourceLine, 1, IF pos > 1 THEN pos - 2 ELSE 0)
                         \o RemoveSingleLineComment(r.line), r.rest)
       ELSE JoinLines(SubSeq(sourceLine, 1, pos - 1), rest)

\* Lexer::_requestSourceLine on the text left in the active stream: the line
\* read, without its // comment, joined with the next lines at a backslash,
\* and without the blanks and tabs that follow a blank or a tab; and the text
\* left in the stream.
RequestSourceLine(src) ==
    LET Kept(m) == ~m.shouldReplace
        Chars(kept) == [i \in 1..Len(kept) |-> kept[i].ch]
        RemoveRedundant(sourceLine) ==
            Chars(SelectSeq([i \in 1..Len(sourceLine) |->
                                [ch |-> sourceLine[i],
                                 shouldReplace |->
                                     /\ sourceLine[i] \in {" ", "\t"}
                                     /\ i > 1
                                     /\ sourceLine[i - 1] \in {" ", "\t"}]],
                            Kept))
        Joined(j) == [line |-> RemoveRedundant(j.line), rest |-> j.rest]
        Read(first) ==
            Joined(JoinLines(RemoveSingleLineComment(first.line), first.rest))
    IN IF src = <<>>
       THEN [line |-> <<>>, rest |-> <<>>]
       ELSE Read(ReadLine(src))

\* enterCommentBlock of _removeMultiLineComments, after its erase of the two
\* characters that open the comment: characters are erased up to the end of
\* the comment, a comment that opens inside is entered, and a line is asked
\* for when none is left; the two characters that close the comment are
\* erased.
RECURSIVE EnterCommentBlock(_, _)
EnterCommentBlock(input, rest) ==
    LET Inner(erased) ==
            IF Find(erased, <<"/", "*">>) = 1
            THEN EnterCommentBlock(SubSeq(erased, 3, Len(erased)), rest)
            ELSE [line |-> erased, rest |-> rest]
        Refill(inner) ==
            IF inner.line = <<>> THEN RequestSourceLine(inner.rest) ELSE inner
        Loop(next) == EnterCommentBlock(next.line, next.rest)
    IN IF input = <<>>
       THEN [line |-> <<>>, rest |-> rest]
       ELSE IF Find(input, <<"*", "/">>) = 1
       THEN [line |-> SubSeq(input, 3, Len(input)), rest |-> rest]
       ELSE Loop(Refill(Inner(Tail(input))))

\* Lexer::_removeMultiLineComments on the current line and the text left in
\* the stream: the first comment of the line is cut out, with the lines it
\* asks for when it does not end on the line.
RemoveMultiLineComments(currInput, src) ==
    LET Glue(prefix, b) == [line |-> prefix \o b.line, rest |-> b.rest]
        Cut(pos) ==
            IF pos = 0
            THEN [line |-> currInput, rest |-> src]
            ELSE Glue(SubSeq(currInput, 1, pos - 1),
                      EnterCommentBlock(SubSeq(currInput, pos + 2, Len(currInput)),
                                        src))
    IN Cut(Find(currInput, <<"/", "*">>))

\* Lexer::_scanTokens and _scanSeparatorTokens on a line that is not empty,
\* for the characters of the texts below: a line break, a blank or a tab, the
\* separators / and *, the letter a (an identifier is the longest run of
\* letters; no run of a is a keyword), and any other character, which goes
\* with those that follow it to a blob.  Gives the token and the line left.
ScanTokens(inputLine) ==
    LET ch == Head(inputLine)
        Class(c) == CASE c \in {"\n", " ", "\t"} -> "space"
                      [] c \in {"/", "*"} -> "separator"
                      [] c = "a" -> "alpha"
                      [] OTHER -> "blob"
        Other == {i \in 1..Len(inputLine) : Class(inputLine[i]) /= Class(ch)}
        n == IF Other = {} THEN Len(inputLine)
             ELSE (CHOOSE i \in Other : \A k \in Other : i <= k) - 1
        Left(k) == SubSeq(inputLine, k + 1, Len(inputLine))
    IN CASE ch = "\n" -> [tok |-> NL, line |-> Left(1)]
         [] ch \in {" ", "\t"} -> [tok |-> SP, line |-> Left(1)]
         [] ch = "/" -> [tok |-> Tok("SLASH", <<"/">>), line |-> Left(1)]
         [] ch = "*" -> [tok |-> Tok("STAR", <<"*">>), line |-> Left(1)]
         [] ch = "a" -> [tok |-> Tok("IDENTIFIER", SubSeq(inputLine, 1, n)),
                         line |-> Left(n)]
         [] OTHER -> [tok |-> Tok("BLOB", SubSeq(inputLine, 1, n)), line |-> Left(n)]

\* The tokens Lexer::GetNextToken gives, call by call, while mCurrLine is not
\* empty: before each token the first comment of the line is removed, and
\* when that leaves no character _scanTokens pops the stream and gives END,
\* so that the text left in the stream is not read.
RECURSIVE ScanLine(_, _)
ScanLine(mCurrLine, rest) ==
    LET Cons(tok, n) == [toks |-> <<tok>> \o n.toks, rest |-> n.rest]
        Scanned(t, left) == Cons(t.tok, ScanLine(t.line, left))
        Removed(m) ==
            IF m.line = <<>>
            THEN [toks |-> <<mEOFToken>>, rest |-> <<>>]
            ELSE Scanned(ScanTokens(m.line), m.rest)
    IN IF mCurrLine = <<>>
       THEN [toks |-> <<>>, rest |-> rest]
       ELSE Removed(RemoveMultiLineComments(mCurrLine, rest))

\* The lines of tokens Lexer::GetNextToken gives for a text: a line is asked
\* for when mCurrLine is empty, and END is given when the line got is empty.
\* The lines that a comment or a backslash joins make one line of tokens.
RECURSIVE ScanStream(_)
ScanStream(src) ==
    LET Line(l) == <<l.toks>> \o ScanStream(l.rest)
        Requested(r) ==
            IF r.line = <<>>
            THEN << <<mEOFToken>> >> \o ScanStream(r.rest)
            ELSE Line(ScanLine(r.line, r.rest))
    IN IF src = <<>>
       THEN <<>>
       ELSE Requested(RequestSourceLine(src))

\* Every text of up to MaxText characters with no directive and no name of a
\* macro in it.
TextInputs ==
    {Input("text", x, ScanStream(x)) :
        x \in SeqsOf({"a", " ", "\t", "/", "*", "\\", "\n"}, 1, MaxText)}

\* --- sentinels of expansions
\* Calls whose expansion ends in the sentinel of the macro, by what takes the
\* sentinel from the lexer:
\*   plain      F(1)        with F(x) x        the REJECT_MACRO case
\*   past end   F(1)(2)     with F(x) G        the call of G, for its bracket
\*   reuse      the same, and F(3) on the next line
\*   concat     C(1)        with C(x) x ##     the CONCAT_OP case
\*   stringize  S(1)        with S(x) #        the STRINGIZE_OP case
\*   capture    F(1) 2)     with F(x) G(x      the call of G, for its argument
SentinelInputs ==
    LET G == DefineFunctionLine("G", "y", <<Id("y")>>)
        Call(name, digit) == <<Id(name), LP, Num(digit), RP>>
    IN {Input("sentinel", [case |-> "plain"],
           <<DefineFunctionLine("F", "x", <<Id("x")>>), Call("F", "1") \o <<NL>> >>),
        Input("sentinel", [case |-> "past end"],
           <<G, DefineFunctionLine("F", "x", <<Id("G")>>),
             Call("F", "1") \o <<LP, Num("2"), RP, NL>> >>),
        Input("sentinel", [case |-> "reuse"],
           <<G, DefineFunctionLine("F", "x", <<Id("G")>>),
             Call("F", "1") \o <<LP, Num("2"), RP, NL>>,
             Call("F", "3") \o <<NL>> >>),
        Input("sentinel", [case |-> "concat"],
           <<DefineFunctionLine("C", "x", <<Id("x"), SP, Dir("CONCAT_OP")>>),
             Call("C", "1") \o <<NL>> >>),
        Input("sentinel", [case |-> "stringize"],
           <<DefineFunctionLine("S", "x", <<Dir("STRINGIZE_OP")>>),
             Call("S", "1") \o <<NL>> >>),
        Input("sentinel", [case |-> "capture"],
           <<G, DefineFunctionLine("F", "x", <<Id("G"), LP, Id("x")>>),
             Call("F", "1") \o <<SP, Num("2"), RP, NL>> >>)}

\* --- directives after #else
\* A block with an #else, then #else and #elif lines met after it, each with a
\* line of text; alone or nested in an outer block that is taken.
ElseInput(nested, first, extras) ==
    LET ExtraLine(kind) ==
            CASE kind = "else" -> ElseLine
              [] kind = "elif0" -> ElifLine("0")
              [] OTHER -> ElifLine("1")
    IN Input("else", [nested |-> nested, first |-> first, extras |-> extras],
             (IF nested THEN <<IfLine("1"), TextLine("p")>> ELSE <<>>)
             \o <<OpenerLine(first), TextLine("t0"), ElseLine, TextLine("t1")>>
             \o Flatten([k \in 1..Len(extras) |->
                            <<ExtraLine(extras[k]), TextLine("t2")>>])
             \o <<EndifLine>>
             \o (IF nested THEN <<TextLine("q"), EndifLine>> ELSE <<>>)
             \o <<TextLine("z")>>)

ElseInputs ==
    {ElseInput(nested, first, extras) :
        nested \in BOOLEAN, first \in {"if0", "if1"},
        extras \in SeqsOf({"else", "elif0", "elif1"}, 1, MaxElif)}

\* --- openers and #endif lines in any order
\* Lines that open a block, close one or are text, balanced or not; the
\* input of no line is the empty input.
DepthInput(kinds) ==
    Input("depth", kinds,
          [k \in 1..Len(kinds) |->
              IF kinds[k] = "endif" THEN EndifLine
              ELSE IF kinds[k] = "text" THEN TextLine("a")
              ELSE OpenerLine(kinds[k])])

DepthInputs ==
    {DepthInput(kinds) :
        kinds \in SeqsOf({"if0", "if1", "ifdefU", "ifndefU", "endif", "text"},
                         0, MaxLines)}

\* --- #else and #elif with no open block
\* An #else or an #elif line met while no block is open, first in the input
\* or after a block that has been closed, and a line of text after it.
OrphanInputs ==
    LET OrphanLine(kind) ==
            CASE kind = "else" -> ElseLine
              [] kind = "elif0" -> ElifLine("0")
              [] OTHER -> ElifLine("1")
    IN {Input("orphan", [kind |-> kind, closed |-> closed],
              (IF closed THEN <<IfLine("1"), TextLine("t"), EndifLine>> ELSE <<>>)
              \o <<OrphanLine(kind), TextLine("a")>>) :
            kind \in {"else", "elif0", "elif1"}, closed \in BOOLEAN}

\* --- ## in a skipped block
\* The text a, with a blank after it or none, and on the same line the opener
\* of a block that is skipped; in the block a line that starts with ##.
SkippedPasteInputs ==
    {Input("skippaste", [blank |-> blank, opener |-> opener],
           <<(<<Id("a")>> \o (IF blank THEN <<SP>> ELSE <<>>)) \o OpenerLine(opener),
             <<Dir("CONCAT_OP"), SP, Id("b"), NL>>,
             EndifLine>>) :
        blank \in BOOLEAN, opener \in {"if0", "ifdefU"}}

\* --- #define lines with a malformed header
\* A #define whose name is followed by an operator (#define A+1) or whose
\* name is a number (#define 1 2), alone, after a #define of the same name,
\* or in a block that is skipped; then a line that uses the name A.
BadDefineInputs ==
    LET BadLine(kind) ==
            IF kind = "operator"
            THEN <<Dir("DEFINE"), SP, Id("A"), PLUS, Num("1"), NL>>
            ELSE <<Dir("DEFINE"), SP, Num("1"), SP, Num("2"), NL>>
        Before(place) ==
            CASE place = "redefined" -> <<DefineLine("A", <<Num("4")>>),
                                          DefineLine("1", <<Num("4")>>)>>
              [] place = "skipped" -> <<IfLine("0")>>
              [] OTHER -> <<>>
        After(place) == IF place = "skipped" THEN <<EndifLine>> ELSE <<>>
    IN {Input("baddefine", [kind |-> kind, place |-> place],
              Before(place) \o <<BadLine(kind)>> \o After(place)
              \o <<TextLine("A")>>) :
            kind \in {"operator", "number"},
            place \in {"alone", "redefined", "skipped"}}

Inputs ==
    CondInputs \cup SkipInputs \cup MacroInputs \cup SelfRefInputs
    \cup TruncInputs \cup IncludeInputs \cup FuncInputs \cup PasteInputs
    \cup LineInputs \cup ExprInputs \cup ElseInputs \cup DepthInputs \cup TextInputs \cup SentinelInputs
    \cup OrphanInputs \cup SkippedPasteInputs \cup BadDefineInputs

\* ------------------------------------------------------------ state machine
\* The fields of the Lexer and of the Preprocessor, the locals processedStr
\* and currToken of Process, the errors handed to mOnErrorCallback, whether
\* the static systemMacrosTable of _expandMacroDefinition has been built, the
\* position of the run (pc: "run" in the loop of Process, "done" once Process
\* has returned, "hang" in a loop that never ends, "crash" aborted), and the
\* input of the run.
VARIABLES mStreamsContext, mCurrLine, mTokensQueue, mCurrLineIndex,
          mSymTable, mContextStack, mConditionalBlocksStack,
          processedStr, currToken, errors, systemMacrosTable, pc, input

vars == <<mStreamsContext, mCurrLine, mTokensQueue, mCurrLineIndex,
          mSymTable, mContextStack, mConditionalBlocksStack,
          processedStr, currToken, errors, systemMacrosTable, pc, input>>

\* Lexer::Lexer, Preprocessor::Preprocessor and the entry of Process.  The
\* table of system macros is a static of the program, not a member: it is
\* built already when an earlier Preprocessor of the program has expanded an
\* object-like macro.
Init ==
    /\ input \in Inputs
    /\ mStreamsContext = <<input.root>>
    /\ mCurrLine = <<>>
    /\ mTokensQueue = <<>>
    /\ mCurrLineIndex = 0
    /\ mSymTable = <<MacroDesc(<<"__LINE__">>, <<>>, <<>>)>>
    /\ mContextStack = <<>>
    /\ mConditionalBlocksStack = <<>>
    /\ processedStr = <<>>
    /\ currToken = mEOFToken
    /\ errors = <<>>
    /\ systemMacrosTable \in BOOLEAN
    /\ pc = "run"

\* The lexer of the current state.
Lex == LexState(mStreamsContext, mCurrLine, mTokensQueue, mCurrLineIndex)

\* while (mpLexer->HasNextToken()): the loop of Process goes on.  A run is
\* followed up to MaxOut atoms of output.
Running ==
    /\ pc = "run"
    /\ HasNextToken(Lex)
    /\ Len(processedStr) < MaxOut

\* auto currToken = mpLexer->GetNextToken();
Fetched == GetNextToken(Lex)

\* The state a handler starts in.
Here ==
    [lex |-> Fetched.lex, mSymTable |-> mSymTable,
     mContextStack |-> mContextStack,
     mConditionalBlocksStack |-> mConditionalBlocksStack,
     processedStr |-> processedStr, errors |-> errors,
     systemMacrosTable |-> systemMacrosTable, st |-> "ok"]

\* switch (currToken.mType)
Dispatch(type) == Running /\ Fetched.tok.mType = type

\* The token types with a case of their own in the switch of Process.
CaseTypes ==
    {"DEFINE", "UNDEF", "IF", "IFNDEF", "IFDEF", "ELIF", "ELSE", "ENDIF",
     "INCLUDE", "IDENTIFIER", "REJECT_MACRO", "CONCAT_OP", "STRINGIZE_OP",
     "CUSTOM_DIRECTIVE"}

\* The end of an iteration of the loop of Process: the state the handler
\* left, and, when it has returned, the stream popped if no token is left.
Return(P) ==
    LET lex == IF P.st = "ok" /\ ~HasNextToken(P.lex)
               THEN PopStream(P.lex)
               ELSE P.lex
    IN /\ mStreamsContext' = lex.mStreamsContext
       /\ mCurrLine' = lex.mCurrLine
       /\ mTokensQueue' = lex.mTokensQueue
       /\ mCurrLineIndex' = lex.mCurrLineIndex
       /\ mSymTable' = P.mSymTable
       /\ mContextStack' = P.mContextStack
       /\ mConditionalBlocksStack' = P.mConditionalBlocksStack
       /\ processedStr' = P.processedStr
       /\ currToken' = Fetched.tok
       /\ errors' = P.errors
       /\ systemMacrosTable' = P.systemMacrosTable
       /\ pc' = IF P.st = "ok" THEN "run" ELSE P.st
       /\ input' = input

Define == Dispatch("DEFINE") /\ Return(CreateMacroDefinition(Here))

Undef == Dispatch("UNDEF") /\ Return(ProcessUndef(Here))

If == Dispatch("IF") /\ \E ub \in UBOutcomes : Return(ProcessIf(Here, ub))

Ifndef == Dispatch("IFNDEF") /\ Return(ProcessIfndef(Here))

Ifdef == Dispatch("IFDEF") /\ Return(ProcessIfdef(Here))

Elif == Dispatch("ELIF") /\ \E ub \in UBOutcomes : Return(ProcessElif(Here, ub))

Else == Dispatch("ELSE") /\ \E ub \in UBOutcomes : Return(ProcessElse(Here, ub))

Endif == Dispatch("ENDIF") /\ Return(ProcessEndif(Here))

Include ==
    Dispatch("INCLUDE") /\ \E ub \in UBOutcomes : Return(ProcessInclusion(Here, ub))

Identifier ==
    /\ Dispatch("IDENTIFIER")
    /\ \E ub \in UBOutcomes : Return(ProcessIdentifier(Here, Fetched.tok, ub))

RejectMacro ==
    Dispatch("REJECT_MACRO") /\ Return(ProcessRejectMacro(Here, Fetched.tok))

ConcatOp ==
    Dispatch("CONCAT_OP") /\ \E ub \in UBOutcomes : Return(ProcessConcat(Here, ub))

StringizeOp == Dispatch("STRINGIZE_OP") /\ Return(ProcessStringize(Here))

CustomDirective ==
    /\ Dispatch("CUSTOM_DIRECTIVE")
    /\ Return(ProcessCustomDirective(Here, Fetched.tok))

Default ==
    /\ Running
    /\ Fetched.tok.mType \notin CaseTypes
    /\ Return(ProcessDefault(Here, Fetched.tok))

\* return processedStr;
Finish ==
    /\ pc = "run"
    /\ ~HasNextToken(Lex)
    /\ pc' = "done"
    /\ UNCHANGED <<mStreamsContext, mCurrLine, mTokensQueue, mCurrLineIndex,
                   mSymTable, mContextStack, mConditionalBlocksStack,
                   processedStr, currToken, errors, systemMacrosTable, input>>

Next ==
    \/ Define
    \/ Undef
    \/ If
    \/ Ifndef
    \/ Ifdef
    \/ Elif
    \/ Else
    \/ Endif
    \/ Include
    \/ Identifier
    \/ RejectMacro
    \/ ConcatOp
    \/ StringizeOp
    \/ CustomDirective
    \/ Default
    \/ Finish

Spec == Init /\ [][Next]_vars

\* ------------------------------------------------------------------ sanity
\* In the loop of Process a stream is on the stack: GetNextToken never asks
\* _getActiveStream for the line of no stream.
StackInv == (pc = "run" /\ HasNextToken(Lex)) => mStreamsContext /= <<>>

\* Only a run of a self-referencing macro reaches MaxOut atoms of output.
CutInv == Len(processedStr) >= MaxOut => input.fam = "selfref"

\* ------------------------------------------------------------------ claims
\* s is a prefix of t.
IsPrefix(s, t) == Len(s) <= Len(t) /\ SubSeq(t, 1, Len(s)) = s

\* The atoms of a string.
Atoms(s) == {s[i] : i \in 1..Len(s)}

\* Whether the condition of an opener holds, U being undefined and __LINE__
\* and M defined.
OpenerHolds(kind) == kind \in {"if1", "ifndefU", "ifdefL"}

\* The branch of a block of the family cond that is to be taken: the first
\* whose condition holds, else the #else branch, else none (-1).
TakenBranch(par) ==
    LET holds == <<OpenerHolds(par.first)>>
                 \o [j \in 1..Len(par.elifs) |-> par.elifs[j] = "1"]
    IN IF \E i \in 1..Len(holds) : holds[i]
       THEN (CHOOSE i \in 1..Len(holds) :
                holds[i] /\ \A j \in 1..(i - 1) : ~holds[j]) - 1
       ELSE IF par.hasElse THEN Len(par.elifs) + 1 ELSE 0 - 1

\* The block of an input of the family cond is met in an active context.
InActiveContext == input.fam = "cond" /\ input.par.outer \in {"none", "if1"}

\* C1: of a block #if / (#elif)* / (#else)? / #endif met in an active context
\* only the branch to be taken (the first whose condition holds, else the
\* #else branch) contributes to the output, and when Process has returned it
\* has contributed.
C1_AtMostOneBranch ==
    InActiveContext =>
        /\ \A i \in 0..(MaxElif + 1) :
              BranchText(i) \in Atoms(processedStr) => i = TakenBranch(input.par)
        /\ (pc = "done" /\ TakenBranch(input.par) >= 0) =>
              BranchText(TakenBranch(input.par)) \in Atoms(processedStr)

\* C2: in a run on a false #if / #ifdef / #ifndef block without #elif, #else
\* and nested conditional, no token of the body is appended to the output,
\* whatever its kind: the output is at any time a prefix of the line before
\* the block, the line break after #endif and the line after the block.
C2_SkippedBlockSilent ==
    input.fam = "skip" => IsPrefix(processedStr, <<"a", "\n", "\n", "z", "\n">>)

\* C3: while the enclosing block is skipping, no token of the block nested in
\* it, and no token of the enclosing block, is appended to the output: only
\* the line break after the enclosing #endif and the line after it are output.
C3_NestedInactiveDominance ==
    (input.fam = "cond" /\ input.par.outer = "if0") =>
        IsPrefix(processedStr, <<"\n", "z", "\n">>)

\* C4: a run on a macro whose body names the macro itself, directly or
\* through another macro, outputs the expansion with the inner occurrence of
\* the name left as it is, and nothing else.
C4_SelfReferenceSuppressed ==
    input.fam = "selfref" =>
        /\ IsPrefix(processedStr, input.par)
        /\ pc = "done" => processedStr = input.par

\* C5: Process never enters a loop it cannot leave, also when the input ends
\* in the middle of a construct.
C5_NoEndlessLoop == pc /= "hang"

\* The output the lines of a macro program give up to its first #undef:
\* countBody is the body of COUNT once defined (the first #define stays),
\* flag whether FLAG is defined.
RECURSIVE ExpectedMacroOutput(_, _, _)
ExpectedMacroOutput(kinds, countBody, flag) ==
    IF kinds = <<>> \/ Head(kinds) = "undef"
    THEN <<>>
    ELSE LET k == Head(kinds)
             rest == Tail(kinds)
             body(b) == IF countBody = <<>> THEN b ELSE countBody
         IN CASE k = "define4" -> ExpectedMacroOutput(rest, body(<<"4">>), flag)
              [] k = "define5" -> ExpectedMacroOutput(rest, body(<<"5">>), flag)
              [] k = "use" ->
                    <<"int", " ", "array", "[">> \o body(<<"COUNT">>)
                    \o <<"];", "\n">>
                    \o ExpectedMacroOutput(rest, countBody, flag)
              [] k = "defineFlag" -> ExpectedMacroOutput(rest, countBody, TRUE)
              [] k = "useFlag" ->
                    <<IF flag THEN "1" ELSE "FLAG", "\n">>
                    \o ExpectedMacroOutput(rest, countBody, flag)
              [] OTHER -> ExpectedMacroOutput(rest, countBody, flag)

\* C6: when Process has returned from a macro program, each occurrence of an
\* object-like macro's name before the program's first #undef stands in the
\* output as the text of the macro's body if it comes after the #define and
\* as the name itself if it comes before; a program without #undef gives
\* exactly these lines.
C6_ObjectLikeSubstitution ==
    (input.fam = "macro" /\ pc = "done") =>
        /\ IsPrefix(ExpectedMacroOutput(input.par, <<>>, FALSE), processedStr)
        /\ (\A k \in 1..Len(input.par) : input.par[k] /= "undef") =>
              processedStr = ExpectedMacroOutput(input.par, <<>>, FALSE)

\* A run of "int array[COUNT];" before and after "#define COUNT 4" has
\* returned with the name in the first line and the body in the second.
C6_Witness ==
    /\ pc = "done"
    /\ input.fam = "macro"
    /\ input.par = <<"use", "define4", "use">>
    /\ processedStr = <<"int", " ", "array", "[", "COUNT", "];", "\n",
                        "int", " ", "array", "[", "4", "];", "\n">>

\* The names of the symbol table are pairwise distinct.
NamesDistinct ==
    \A i, j \in 1..Len(mSymTable) :
        mSymTable[i].mName = mSymTable[j].mName => i = j

\* The token after the directive and the blank that follows it.
NameAfterDirective == GetNextToken(GetNextToken(Fetched.lex).lex).tok

\* The next step handles a directive of the given type in an active branch,
\* with a blank and an identifier after it.
ActiveDirective(type) ==
    /\ Dispatch(type)
    /\ ~ShouldTokenBeSkipped(mConditionalBlocksStack)
    /\ GetNextToken(Fetched.lex).tok.mType = "SPACE"
    /\ NameAfterDirective.mType = "IDENTIFIER"

\* The step reports an error of the given type.
Reports(type) ==
    \E k \in (Len(errors) + 1)..Len(errors') : errors'[k].mType = type

\* C7: the names of the symbol table are pairwise distinct in every state,
\* and a #define in an active branch of a name that is in the table reports
\* MACRO_ALREADY_DEFINED and leaves the table as it was.
C7_UniqueNames ==
    /\ []NamesDistinct
    /\ [][(/\ ActiveDirective("DEFINE")
           /\ FindMacro(mSymTable, NameAfterDirective.mRawView) /= 0)
          => (mSymTable' = mSymTable /\ Reports("MACRO_ALREADY_DEFINED"))]_vars

\* A #define of a name that was in the table has just been handled: the error
\* is the last one reported and the table holds a macro besides __LINE__.
C7_Witness ==
    /\ currToken.mType = "DEFINE"
    /\ errors /= <<>>
    /\ errors[Len(errors)].mType = "MACRO_ALREADY_DEFINED"
    /\ Len(mSymTable) >= 2
    /\ pc = "run"

\* C8: an #undef NAME in an active branch removes NAME from the table and
\* reports nothing when NAME is in the table, and reports UNDEFINED_MACRO and
\* leaves the table as it was when it is not.
C8_UndefRemoves ==
    [][ActiveDirective("UNDEF")
       => IF FindMacro(mSymTable, NameAfterDirective.mRawView) /= 0
          THEN /\ FindMacro(mSymTable', NameAfterDirective.mRawView) = 0
               /\ errors' = errors
          ELSE /\ mSymTable' = mSymTable
               /\ Reports("UNDEFINED_MACRO")]_vars

\* An error of one of the types has been reported.
Reported(types) == \E k \in 1..Len(errors) : errors[k].mType \in types

\* C9: a #define or an #undef in a skipped branch leaves the table as it was
\* and reports neither MACRO_ALREADY_DEFINED nor UNDEFINED_MACRO: of the
\* macros of the branches of a block only that of the branch to be taken is
\* ever in the table, and it is there when Process has returned; the #define
\* and the #undef of the body of a skipped block leave N out and M in.
C9_SkippedDirectivesInert ==
    /\ input.fam = "cond" =>
          /\ \A i \in 0..(MaxElif + 1) :
                FindMacro(mSymTable, <<BranchMacro(i)>>) /= 0 =>
                    (InActiveContext /\ i = TakenBranch(input.par))
          /\ (pc = "done" /\ InActiveContext /\ TakenBranch(input.par) >= 0) =>
                FindMacro(mSymTable, <<BranchMacro(TakenBranch(input.par))>>) /= 0
          /\ ~Reported({"MACRO_ALREADY_DEFINED", "UNDEFINED_MACRO"})
    /\ input.fam = "skip" =>
          /\ FindMacro(mSymTable, <<"N">>) = 0
          /\ pc = "done" => FindMacro(mSymTable, <<"M">>) /= 0
          /\ ~Reported({"MACRO_ALREADY_DEFINED", "UNDEFINED_MACRO"})

\* The text of a stream with every #include line replaced by the text of the
\* stream the resolver returns for it.
RECURSIVE IncludedText(_)
IncludedText(lines) ==
    IF lines = <<>>
    THEN <<>>
    ELSE (IF Head(lines)[1].mType = "INCLUDE"
          THEN IncludedText(IncludeCallback(Head(lines)[4].mRawView, TRUE))
          ELSE ConcatRaw(Head(lines)))
         \o IncludedText(Tail(lines))

\* C10: when the resolver returns a stream for an #include, the tokens of
\* that stream are processed before the tokens that follow the directive, and
\* processing resumes with the including stream: the output is at any time a
\* prefix of the text with the inclusions made, it is that text when Process
\* has returned, and no error is reported.
C10_IncludeOrder ==
    (input.fam = "include" /\ input.par.name /= "missing") =>
        /\ IsPrefix(processedStr, IncludedText(input.root))
        /\ errors = <<>>
        /\ pc = "done" => processedStr = IncludedText(input.root)

\* Every stream of the stack is exhausted.
AllStreamsExhausted(lex) ==
    \A i \in 1..Len(lex.mStreamsContext) : lex.mStreamsContext[i] = <<>>

\* The top stream is exhausted, the queue and the current line are empty, and
\* a stream below the top still has lines.
TopExhaustedOnly(lex) ==
    /\ lex.mTokensQueue = <<>>
    /\ lex.mCurrLine = <<>>
    /\ lex.mStreamsContext /= <<>>
    /\ ~ActiveHasNextLine(lex)
    /\ ~AllStreamsExhausted(lex)

\* C11: in every state of a run, a call of GetNextToken returns the END token
\* only when every stream of the stack is exhausted; when only the top stream
\* is exhausted, the call pops it and returns the next token of the stream
\* below.
C11_EndOnlyWhenAllExhausted ==
    /\ GetNextToken(Lex).tok.mType = "END" => AllStreamsExhausted(Lex)
    /\ TopExhaustedOnly(Lex) =>
          /\ GetNextToken(Lex).tok = GetNextToken(PopStream(Lex)).tok
          /\ Len(GetNextToken(Lex).lex.mStreamsContext) < Len(mStreamsContext)

\* n calls of GetNextToken: the tokens returned, in order, and the lexer after
\* the last call.
RECURSIVE TakeTokens(_, _)
TakeTokens(lex, n) ==
    IF n = 0
    THEN [toks |-> <<>>, lex |-> lex]
    ELSE LET r == GetNextToken(lex)
             rest == TakeTokens(r.lex, n - 1)
         IN [toks |-> <<r.tok>> \o rest.toks, lex |-> rest.lex]

\* Token lists handed to AppendFront: that of the test of lexerTests.cpp, one
\* token, and a macro body.
AppendedTokenLists ==
    {<<Dir("BLOB"), Dir("ELIF")>>, <<Blob("x")>>, <<Id("p"), SP, Num("1")>>}

\* C12: in every state of a run, after AppendFront(t1..tn) the next n calls of
\* GetNextToken return t1..tn in that order and leave the lexer as it was
\* before the AppendFront: the tokens that were queued come next, in their
\* order, and the current line and the streams have not been read.
C12_AppendFrontOrder ==
    \A ts \in AppendedTokenLists :
        LET t == TakeTokens(AppendFront(Lex, ts), Len(ts))
        IN /\ t.toks = ts
           /\ t.lex = Lex
           /\ TakeTokens(t.lex, Len(mTokensQueue)).toks = mTokensQueue

\* A macro expansion has put tokens in front of the queue while tokens of the
\* current line are still to be scanned.
C12_Witness ==
    /\ Len(mTokensQueue) >= 2
    /\ mCurrLine /= <<>>
    /\ pc = "run"

\* The next step handles, in an active branch, an identifier that names a
\* function-like macro that is not being expanded.
FunctionLikeNameNext ==
    /\ Dispatch("IDENTIFIER")
    /\ ~ShouldTokenBeSkipped(mConditionalBlocksStack)
    /\ FindMacro(mSymTable, Fetched.tok.mRawView) /= 0
    /\ mSymTable[FindMacro(mSymTable, Fetched.tok.mRawView)].mArgsNames /= <<>>
    /\ \A k \in 1..Len(mContextStack) : mContextStack[k] /= Fetched.tok.mRawView

\* C13: the step that handles a function-like macro's name whose next
\* non-space token is not an open bracket appends the name to the output,
\* reports no error, leaves the expansion context as it was and consumes no
\* token after the name, and Process goes on.
C13_NameWithoutCallVerbatim ==
    [][(FunctionLikeNameNext
        /\ SkipSpaces(Fetched.lex).tok.mType /= "OPEN_BRACKET")
       => /\ processedStr' = processedStr \o Fetched.tok.mRawView
          /\ errors' = errors
          /\ mContextStack' = mContextStack
          /\ mTokensQueue' = Fetched.lex.mTokensQueue
          /\ mCurrLine' = Fetched.lex.mCurrLine
          /\ pc' = "run"]_vars

\* C14: in a run on a call with brackets inside an argument, a comma or a
\* closing bracket inside the inner brackets neither splits the argument nor
\* ends the list: the output is at any time a prefix of the expansion with the
\* whole bracketed argument, it is that expansion when Process has returned,
\* and no error is reported.
C14_BracketsInArguments ==
    (input.fam = "func" /\ input.par.case = "brackets") =>
        /\ IsPrefix(processedStr, input.par.out)
        /\ errors = <<>>
        /\ pc \in {"run", "done"}
        /\ pc = "done" => processedStr = input.par.out

\* C15: in a run on a call, INCONSISTENT_MACRO_ARITY is reported when the
\* number of arguments differs from the number of parameters, TEST() against
\* one parameter included, and no error at all is reported when the numbers
\* are equal, TEST( ) included.
C15_ArityError ==
    (input.fam = "func" /\ input.par.case = "arity") =>
        /\ input.par.err = "none" => errors = <<>>
        /\ (input.par.err = "arity" /\ pc /= "run") =>
              Reported({"INCONSISTENT_MACRO_ARITY"})

\* C16: in a run on a call of a macro of two parameters, each identifier of
\* the body that is a parameter's name is replaced by that parameter's
\* argument, at once for all parameters, and the other body tokens stay: the
\* output is at any time a prefix of the body with the arguments in place, it
\* is that text when Process has returned, and no error is reported.
C16_SimultaneousSubstitution ==
    (input.fam = "func" /\ input.par.case = "subst") =>
        /\ IsPrefix(processedStr, input.par.out)
        /\ errors = <<>>
        /\ pc \in {"run", "done"}
        /\ pc = "done" => processedStr = input.par.out

\* C17: in a run on a call of a macro whose body is the operator # and its
\* parameter, the output is the text around the call with, for the call, a
\* double quote, the argument's text and a double quote.
C17_StringizeQuotes ==
    (input.fam = "func" /\ input.par.case = "stringize") =>
        /\ IsPrefix(processedStr, input.par.out)
        /\ errors = <<>>
        /\ pc \in {"run", "done"}
        /\ pc = "done" => processedStr = input.par.out

\* A string without the blanks at its end.
RECURSIVE StripTrailingSpaces(_)
StripTrailingSpaces(str) ==
    IF str /= <<>> /\ str[Len(str)] = " "
    THEN StripTrailingSpaces(SubSeq(str, 1, Len(str) - 1))
    ELSE str

\* C18: the step that handles a ## token in an active branch leaves as output
\* the output before it without the blanks at its end, followed by the raw
\* text of the next non-space token, which is consumed with the blanks before
\* it, and Process goes on.
C18_ConcatAdjacent ==
    [][(Dispatch("CONCAT_OP") /\ ~ShouldTokenBeSkipped(mConditionalBlocksStack))
       => /\ processedStr' = StripTrailingSpaces(processedStr)
                             \o SkipSpaces(Fetched.lex).tok.mRawView
          /\ mTokensQueue' = SkipSpaces(Fetched.lex).lex.mTokensQueue
          /\ mCurrLine' = SkipSpaces(Fetched.lex).lex.mCurrLine
          /\ pc' = "run"]_vars

\* C19: in a run on a call of STRCAT, whose body is a ## b, an argument that
\* is a macro's name is pasted as the name, on either side of ##: when Process
\* has returned the output is the two argument texts joined, Process does
\* return, and no error is reported.
C19_PasteOperandsUnexpanded ==
    (input.fam = "func" /\ input.par.case = "strcat") =>
        /\ errors = <<>>
        /\ pc \in {"run", "done"}
        /\ pc = "done" => processedStr = input.par.out

\* C20: in a run on lines that hold __LINE__, each occurrence is replaced by
\* the decimal index of its own line, counted from 1: the output is at any
\* time a prefix of the input with the indices in place, it is that text when
\* Process has returned, and Process does return.
C20_LineNumbers ==
    input.fam = "line" =>
        /\ IsPrefix(processedStr, input.par)
        /\ errors = <<>>
        /\ pc \in {"run", "done"}
        /\ pc = "done" => processedStr = input.par

\* The tokens of the expression of an input of the family expr evaluate, with
\* the macros of the input defined, to the value of the grammar, whatever the
\* undefined operations give.
ExprValueRight ==
    \A ub \in UBOutcomes :
        LET r == EvaluateExpression(input.par.expr, mSymTable, ub)
        IN r.st = "ok" /\ r.v = input.par.value

\* The run of an input of the family expr is in no abort or endless loop, has
\* reported nothing, and once Process has returned the branch T is in the
\* output iff the value of the grammar is not 0, the branch E iff it is 0.
ExprBranchRight ==
    /\ pc \in {"run", "done"}
    /\ errors = <<>>
    /\ pc = "done" =>
          /\ "T" \in Atoms(processedStr) <=> input.par.value /= 0
          /\ "E" \in Atoms(processedStr) <=> input.par.value = 0

\* C21: for an #if expression of numbers, brackets and operators, written
\* with or without blanks, the evaluator returns the value of the grammar and
\* the branch is taken iff that value is not 0.
C21_ExpressionValue ==
    (input.fam = "expr" /\ input.par.kind = "arith") =>
        (ExprValueRight /\ ExprBranchRight)

\* C22: in an #if expression an identifier that names an object-like macro
\* has the value of the macro's body (A of "#define A 1" is 1, C of
\* "#define C 0" is 0), an identifier that names no macro is 0, and defined(X)
\* is 1 iff X is in the symbol table; the branch is taken accordingly.
C22_IdentifierValue ==
    (input.fam = "expr" /\ input.par.kind = "ident"
     /\ FindMacro(mSymTable, <<"A">>) /= 0 /\ FindMacro(mSymTable, <<"C">>) /= 0) =>
        (ExprValueRight /\ ExprBranchRight)

\* C23: in an #if expression a call of a function-like macro is expanded with
\* its arguments and the result is evaluated: with "#define A 1" and
\* "#define AND(X, Y) (X && Y)", AND(A, 0) is 0 and AND(A, 1) is 1, the branch
\* is taken accordingly and no error is reported.
C23_CallValue ==
    (input.fam = "expr" /\ input.par.kind = "call"
     /\ FindMacro(mSymTable, <<"A">>) /= 0 /\ FindMacro(mSymTable, <<"AND">>) /= 0) =>
        (ExprValueRight /\ ExprBranchRight)

\* C24: an #if expression with a division is evaluated without a division by
\* zero being executed: the evaluation ends, neither in an abort nor in an
\* endless loop, x / 0 is 0 and its branch is not taken, and Process goes on
\* to its return.
C24_DivisionByZero ==
    (input.fam = "expr" /\ input.par.kind = "div") =>
        (ExprValueRight /\ ExprBranchRight)

\* The frame on top of the stack of conditional blocks.
TopFrame == mConditionalBlocksStack[Len(mConditionalBlocksStack)]

\* The next step handles a directive of the given type while the top frame
\* has seen its #else.
AfterElse(type) ==
    /\ Dispatch(type)
    /\ mConditionalBlocksStack /= <<>>
    /\ TopFrame.mHasElseBeenFound

\* The step reports the given error, and nothing else, at the line of the
\* directive.
ReportsOnly(type) ==
    errors' = Append(errors, [mType |-> type, mLine |-> Fetched.lex.mCurrLineIndex])

\* C25: an #else met when the top frame has seen an #else reports
\* ANOTHER_ELSE_BLOCK_FOUND, an #elif met then reports
\* ELIF_BLOCK_AFTER_ELSE_FOUND, and in both cases the stack of conditional
\* blocks, its depth and the flags of its frames, is left as it was.
C25_ElseTwice ==
    [][/\ AfterElse("ELSE") =>
            (ReportsOnly("ANOTHER_ELSE_BLOCK_FOUND")
             /\ mConditionalBlocksStack' = mConditionalBlocksStack)
       /\ AfterElse("ELIF") =>
            (ReportsOnly("ELIF_BLOCK_AFTER_ELSE_FOUND")
             /\ mConditionalBlocksStack' = mConditionalBlocksStack)]_vars

\* Both errors have been reported in a run on a block with directives after
\* its #else, the last one just now, and the frame is still on the stack with
\* its #else seen.
C25_Witness ==
    /\ input.fam = "else"
    /\ currToken.mType \in {"ELSE", "ELIF"}
    /\ Reported({"ANOTHER_ELSE_BLOCK_FOUND"})
    /\ Reported({"ELIF_BLOCK_AFTER_ELSE_FOUND"})
    /\ errors[Len(errors)].mType \in
            {"ANOTHER_ELSE_BLOCK_FOUND", "ELIF_BLOCK_AFTER_ELSE_FOUND"}
    /\ Len(mConditionalBlocksStack) = (IF input.par.nested THEN 2 ELSE 1)
    /\ TopFrame.mHasElseBeenFound
    /\ pc = "run"

\* The step is the whole handling of a directive of one of the given types:
\* the handler returns to the loop of Process.
Handles(types) ==
    /\ Running
    /\ Fetched.tok.mType \in types
    /\ pc' = "run"

\* C26: a step that handles #if, #ifdef or #ifndef, in a skipped branch as
\* well, pushes one frame on the frames that were there; an #endif met with a
\* non-empty stack pops the top frame, leaves the others and reports nothing;
\* an #endif met with an empty stack reports UNBALANCED_ENDIF and leaves the
\* stack empty; every other step leaves the depth as it was.  The depth is so
\* the number of openers handled minus the number of #endif handled while the
\* stack was not empty.
C26_StackDepth ==
    [][/\ Handles({"IF", "IFDEF", "IFNDEF"}) =>
            /\ Len(mConditionalBlocksStack') = Len(mConditionalBlocksStack) + 1
            /\ SubSeq(mConditionalBlocksStack', 1, Len(mConditionalBlocksStack))
                  = mConditionalBlocksStack
       /\ (Handles({"ENDIF"}) /\ mConditionalBlocksStack /= <<>>) =>
            /\ mConditionalBlocksStack' =
                  SubSeq(mConditionalBlocksStack, 1, Len(mConditionalBlocksStack) - 1)
            /\ errors' = errors
       /\ (Handles({"ENDIF"}) /\ mConditionalBlocksStack = <<>>) =>
            /\ ReportsOnly("UNBALANCED_ENDIF")
            /\ mConditionalBlocksStack' = <<>>
       /\ ~Handles({"IF", "IFDEF", "IFNDEF", "ENDIF"}) =>
            Len(mConditionalBlocksStack') = Len(mConditionalBlocksStack)]_vars

\* An #endif has just popped the inner frame of two: an opener was handled in
\* a branch that is skipped or not, and the outer frame is left.
C26_Witness ==
    /\ input.fam = "depth"
    /\ Len(input.root) = 3
    /\ input.par[3] = "endif"
    /\ input.par[1] /= "endif" /\ input.par[1] /= "text"
    /\ input.par[2] /= "endif" /\ input.par[2] /= "text"
    /\ currToken.mType = "ENDIF"
    /\ Len(mConditionalBlocksStack) = 1
    /\ errors = <<>>
    /\ pc = "run"

\* The text a run on an #include of no stream must give: the line before the
\* directive and the lines after it.
TextAroundInclude ==
    (IF input.par.head THEN ConcatRaw(TextLine("zero")) ELSE <<>>)
    \o Flatten([k \in 1..Len(TailLines(input.par.tail)) |->
                   ConcatRaw(TailLines(input.par.tail)[k])])

\* The resolver gives no stream for the #include of the run, and whatever
\* follows: nothing is reported, no stream is pushed and the output is the
\* text around the directive.
MissingIncludeSilent ==
    /\ errors = <<>>
    /\ Len(mStreamsContext) <= 1
    /\ IsPrefix(processedStr, TextAroundInclude)
    /\ pc = "done" => processedStr = TextAroundInclude

\* C27: when the resolver returns no stream for an #include, no error is
\* reported, no stream is pushed, the process is not aborted, and Process
\* goes on with the tokens after the directive up to its return.
C27_MissingIncludeSilent ==
    (input.fam = "include" /\ input.par.name = "missing") =>
        (pc \in {"run", "done"} /\ MissingIncludeSilent)

\* C28: the step that handles an #include in a skipped branch pushes no
\* stream on the stack of the lexer: the stack is not deeper after the step
\* than before it.
C28_SkippedIncludeIgnored ==
    [][(Dispatch("INCLUDE") /\ ShouldTokenBeSkipped(mConditionalBlocksStack))
       => Len(mStreamsContext') <= Len(mStreamsContext)]_vars

\* C29: when Process has returned the stack of streams of the lexer is
\* empty: the root stream and every stream of the resolver have been popped,
\* for the empty input too.
C29_StreamsPopped == pc = "done" => mStreamsContext = <<>>

\* C30: a run on a text with no directive and no name of a macro in it
\* returns, and what it returns is the text, character by character: blanks
\* and tabs, runs of them and comments included.
C30_TextUnchanged ==
    input.fam = "text" =>
        /\ pc \in {"run", "done"}
        /\ pc = "done" => processedStr = input.par

\* The logical text of a text: each backslash that ends a line is deleted
\* with the line break after it.
RECURSIVE Logical(_)
Logical(x) ==
    IF x = <<>>
    THEN <<>>
    ELSE IF Len(x) >= 2 /\ x[1] = "\\" /\ x[2] = "\n"
    THEN Logical(SubSeq(x, 3, Len(x)))
    ELSE <<Head(x)>> \o Logical(Tail(x))

\* The tokens of a stream that carry text, in the order they are given.
TextTokens(stream) ==
    LET IsText(t) == t.mType /= "END"
    IN SelectSeq(Flatten(stream), IsText)

\* The text has a backslash, and each of its backslashes ends its line.
JoinsLines(x) ==
    /\ \E i \in 1..Len(x) : x[i] = "\\"
    /\ \A i \in 1..Len(x) : x[i] = "\\" => (i < Len(x) /\ x[i + 1] = "\n")

\* The text is made of letters, backslashes and line breaks, it has a
\* backslash, and none of its backslashes ends a line.
JoinsNothing(x) ==
    /\ \E i \in 1..Len(x) : x[i] = "\\"
    /\ \A i \in 1..Len(x) :
          /\ x[i] \in {"a", "\\", "\n"}
          /\ x[i] = "\\" => (i < Len(x) /\ x[i + 1] /= "\n")

\* C31: a text whose backslashes end their lines gives the tokens and the
\* output of its logical text, no other character being lost; a text whose
\* backslashes are inside their lines is joined nowhere and comes out as it
\* is.
C31_LineContinuation ==
    input.fam = "text" =>
        /\ JoinsLines(input.par) =>
              /\ TextTokens(input.root) = TextTokens(ScanStream(Logical(input.par)))
              /\ pc = "done" =>
                    processedStr = ConcatRaw(TextTokens(ScanStream(Logical(input.par))))
        /\ JoinsNothing(input.par) =>
              (pc = "done" => processedStr = input.par)

\* The state a handler starts in when the program has built no table of
\* system macros yet.
FreshHere == [Here EXCEPT !.systemMacrosTable = FALSE]

\* The step leaves the output, the errors, the position of the run and the
\* lexer as the handler state P does.
LeavesAs(P) ==
    LET lex == IF P.st = "ok" /\ ~HasNextToken(P.lex) THEN PopStream(P.lex) ELSE P.lex
    IN /\ processedStr' = P.processedStr
       /\ errors' = P.errors
       /\ pc' = (IF P.st = "ok" THEN "run" ELSE P.st)
       /\ mTokensQueue' = lex.mTokensQueue
       /\ mStreamsContext' = lex.mStreamsContext
       /\ mSymTable' = P.mSymTable
       /\ mContextStack' = P.mContextStack

\* C32: what a run does depends on nothing outside its Lexer and its
\* Preprocessor: every step that handles an identifier leaves the output, the
\* errors and the lexer as the same step does in a program where no
\* Preprocessor has run before, __LINE__ included.
C32_NoStateOutsideInstances ==
    [][Dispatch("IDENTIFIER") =>
          \E ub \in UBOutcomes :
              LeavesAs(ProcessIdentifier(FreshHere, Fetched.tok, ub))]_vars

\* C33: in the loop of Process and at its return, whenever the queue of the
\* lexer holds no REJECT_MACRO token the context of expansions is empty: every
\* name pushed has been removed by its sentinel.
C33_ContextDrained ==
    (/\ pc \in {"run", "done"}
     /\ \A k \in 1..Len(mTokensQueue) : mTokensQueue[k].mType /= "REJECT_MACRO")
    => mContextStack = <<>>

\* C34: the text of a REJECT_MACRO sentinel, the name of its macro, never
\* reaches the output, whichever handler takes the sentinel from the lexer:
\* the loop of Process, the ## case, the # case or the argument loop of a
\* nested call.  In a run on a call whose text holds no name of a macro after
\* the call, no atom of the output is the name of a macro.
C34_SentinelNeverOutput ==
    (input.fam = "sentinel" /\ input.par.case /= "reuse") =>
        \A k \in 1..Len(mSymTable) :
            mSymTable[k].mName[1] \notin Atoms(processedStr)

\* C35: Process does not return while a stream of the stack has lines that
\* were not read: when it has returned every stream left on the stack is
\* exhausted, whatever the nesting of the inclusions.
C35_NoLineLeftUnread == pc = "done" => AllStreamsExhausted(Lex)

\* C36: _evaluateExpression returns for the expression of every #if line:
\* whatever the undefined operations give, no loop of the evaluator goes on
\* for ever, and the run of Process is in no endless loop.
C36_EvaluatorReturns ==
    input.fam = "expr" =>
        /\ \A ub \in UBOutcomes :
              EvaluateExpression(input.par.expr, mSymTable, ub).st /= "hang"
        /\ pc /= "hang"

\* C37: an #else or an #elif met while the conditional stack is empty
\* accesses no frame: the step leaves the stack empty and Process goes on with
\* the next token.
C37_ElseWithoutIf ==
    [][((Dispatch("ELSE") \/ Dispatch("ELIF"))
            /\ mConditionalBlocksStack = <<>>)
        => (mConditionalBlocksStack' = <<>> /\ pc' = "run")]_vars

\* C38: the expansion of a function-like macro reads a parameter name only
\* at an index below the number of parameters: no call, whatever the number
\* of its arguments, makes the substitution loop read outside the list of
\* parameter names, so no expansion step ends the process.
C38_ParametersInRange ==
    [][(Dispatch("IDENTIFIER") /\ FindMacro(mSymTable, Fetched.tok.mRawView) /= 0
            /\ Fetched.tok.mRawView /= <<"__LINE__">>)
        => pc' /= "crash"]_vars

\* C39: the ## handler removes a character of the output only when the
\* output is not empty and the token is not being skipped: a ## in a skipped
\* block leaves the output as it was, and a ## met with the output still
\* empty reads no last character, so the step does not end the process.
C39_ConcatLeavesOutput ==
    [][Dispatch("CONCAT_OP")
        => /\ ShouldTokenBeSkipped(mConditionalBlocksStack)
                => processedStr' = processedStr
           /\ processedStr = <<>> => pc' /= "crash"]_vars

\* The header of the #define being dispatched is malformed: the token taken
\* for the name is no identifier (UNEXPECTED_TOKEN is reported for it), or
\* the token after the name is none of a blank, a line break and an opening
\* bracket (INVALID_MACRO_DEFINITION is reported).
MalformedHeader ==
    LET r1 == GetNextToken(Fetched.lex)
        r2 == GetNextToken(r1.lex)
        r3 == GetNextToken(r2.lex)
    IN \/ r2.tok.mType /= "IDENTIFIER"
       \/ r3.tok.mType \notin {"SPACE", "NEWLINE", "OPEN_BRACKET"}

\* C40: a #define whose header is malformed adds no entry to the symbol
\* table: the table after the directive equals the table before it.
C40_MalformedDefineAddsNothing ==
    [][(Dispatch("DEFINE") /\ MalformedHeader) => mSymTable' = mSymTable]_vars

====
